---- MODULE Spec2Model ----
(***************************************************************************)
(* Model of the rcodegen workflow orchestration engine:                    *)
(*   Orchestrator.Run          src/pkg/bundle/loader.go 196-282            *)
(*   ParallelExecutor.Execute  src/unnamed/part_003 16-60                  *)
(*   ToolExecutor.Execute      src/pkg/executor/tool.go 19-73              *)
(*   Context                   src/pkg/orchestrator/context.go             *)
(*   EvaluateCondition         src/unnamed/part_006 423-488                *)
(* Go strings are sequences of one-character strings.  Go maps are         *)
(* functions whose DOMAIN is the set of keys present.                      *)
(***************************************************************************)
EXTENDS Integers, Sequences, FiniteSets, TLC

(***************************************************************************)
(* Strings                                                                 *)
(***************************************************************************)

\* The empty Go string and the empty Go map.
Empty == <<>>

\* strings.Index(s, sub) + 1: the 1-based position of the first occurrence of
\* sub in s, 0 when there is none (Go's -1).
IndexOf(s, sub) ==
  LET hits == {k \in 1..(Len(s) - Len(sub) + 1) :
                  SubSeq(s, k, k + Len(sub) - 1) = sub}
  IN  IF hits = {} THEN 0 ELSE CHOOSE k \in hits : \A j \in hits : k <= j

\* The suffix of s from 1-based position k (Go's s[k-1:]).
From(s, k) == SubSeq(s, k, Len(s))

RECURSIVE TrimLeftIn(_, _)
TrimLeftIn(s, cut) ==
  IF s # <<>> /\ Head(s) \in cut THEN TrimLeftIn(Tail(s), cut) ELSE s

RECURSIVE TrimRightIn(_, _)
TrimRightIn(s, cut) ==
  IF s # <<>> /\ s[Len(s)] \in cut
  THEN TrimRightIn(SubSeq(s, 1, Len(s) - 1), cut) ELSE s

\* A TrimSpace that trims nothing.
NoTrim(s) == s

\* strings.TrimSpace
TrimSpace(s) ==
  TrimRightIn(TrimLeftIn(s, {" ", "\t", "\n", "\r"}), {" ", "\t", "\n", "\r"})

\* strings.Trim(s, "'\"")
TrimQuotes(s) == TrimRightIn(TrimLeftIn(s, {"'", "\""}), {"'", "\""})

\* strings.Split(s, "."): never empty; "a..b" gives three parts.
RECURSIVE SplitDot(_)
SplitDot(s) ==
  LET k == IndexOf(s, <<".">>)
  IN  IF k = 0 THEN <<s>>
      ELSE <<SubSeq(s, 1, k - 1)>> \o SplitDot(From(s, k + 1))

\* strings.Contains
Contains(s, sub) == IndexOf(s, sub) # 0

(***************************************************************************)
(* Words of the program text, as character sequences                       *)
(***************************************************************************)
W_inputs == <<"i", "n", "p", "u", "t", "s">>
W_steps == <<"s", "t", "e", "p", "s">>
W_output_ref == <<"o", "u", "t", "p", "u", "t", "_", "r", "e", "f">>
W_status == <<"s", "t", "a", "t", "u", "s">>
W_result == <<"r", "e", "s", "u", "l", "t">>
W_success == <<"s", "u", "c", "c", "e", "s", "s">>
W_partial == <<"p", "a", "r", "t", "i", "a", "l">>
W_failure == <<"f", "a", "i", "l", "u", "r", "e">>
W_skipped == <<"s", "k", "i", "p", "p", "e", "d">>
W_true == <<"t", "r", "u", "e">>
W_completed == <<"c", "o", "m", "p", "l", "e", "t", "e", "d">>
W_output_length == <<"o", "u", "t", "p", "u", "t", "_", "l", "e", "n", "g", "t", "h">>
W_job_id == <<"j", "o", "b", "_", "i", "d">>
W_claude == <<"c", "l", "a", "u", "d", "e">>
W_codex == <<"c", "o", "d", "e", "x">>
W_gemini == <<"g", "e", "m", "i", "n", "i">>
W_null == <<"n", "u", "l", "l">>
W_OR == <<" ", "O", "R", " ">>
W_AND == <<" ", "A", "N", "D", " ">>
W_contains == <<" ", "c", "o", "n", "t", "a", "i", "n", "s", " ">>

\* envelope.Status values (package envelope).
StatusSuccess == W_success
StatusPartial == W_partial
StatusFailure == W_failure
StatusSkipped == W_skipped

(***************************************************************************)
(* Envelope                                                                *)
(***************************************************************************)

\* interface{} values stored in Envelope.Result.
IntV(n) == [t |-> "int", v |-> n]
StrV(s) == [t |-> "str", v |-> s]

\* map[string]interface{}: nil (an envelope literal that sets no Result) or
\* made, with its key/value pairs.
NilMap == [isNil |-> TRUE, kv |-> <<>>]
MapOf(f) == [isNil |-> FALSE, kv |-> f]

\* What an envelope's DurationMs measures: nothing (the zero value), the run
\* of one command, or the whole of Orchestrator.Run.
DurUnset == "unset"
DurStep == "step"
DurRun == "run"

\* &envelope.Envelope{Status: st}: every other field is its zero value.
EnvLit(st) ==
  [Status |-> st, Tool |-> Empty, OutputRef |-> Empty, Result |-> NilMap,
   ErrCode |-> Empty, Duration |-> DurUnset]

\* Builder.WithDuration
WithDuration(env, d) == [env EXCEPT !.Duration = d]

\* A Failure that leaves the error out.
EnvFailureNoCode(tool, ref, code) ==
  [Status |-> StatusFailure, Tool |-> tool, OutputRef |-> ref,
   Result |-> MapOf(Empty), ErrCode |-> Empty, Duration |-> DurUnset]

\* envelope.New()...Failure(code, msg).Build()
EnvFailure(tool, ref, code) ==
  [Status |-> StatusFailure, Tool |-> tool, OutputRef |-> ref,
   Result |-> MapOf(Empty), ErrCode |-> code, Duration |-> DurUnset]

\* envelope.New()...Success().WithResult(...).Build()
EnvSuccess(tool, ref, res) ==
  [Status |-> StatusSuccess, Tool |-> tool, OutputRef |-> ref,
   Result |-> res, ErrCode |-> Empty, Duration |-> DurUnset]

\* No envelope (a nil *Envelope, or nothing returned yet).
NoEnv == [Status |-> Empty, Tool |-> Empty, OutputRef |-> Empty,
          Result |-> NilMap, ErrCode |-> Empty, Duration |-> DurUnset]

\* ok of `v, ok := m[k]`.
Has(m, k) == k \in DOMAIN m

(***************************************************************************)
(* Number formatting                                                       *)
(***************************************************************************)
Digits == <<"0", "1", "2", "3", "4", "5", "6", "7", "8", "9">>

RECURSIVE Itoa(_)
Itoa(n) ==
  IF n < 0 THEN <<"-">> \o Itoa(0 - n)
  ELSE IF n < 10 THEN <<Digits[n + 1]>>
  ELSE Itoa(n \div 10) \o <<Digits[(n % 10) + 1]>>

\* fmt.Sprintf("%v", v)
SprintV(v) == IF v.t = "int" THEN Itoa(v.v) ELSE v.v

\* The keys the program stores in Result maps, in byte order (json.Marshal
\* writes map keys sorted).
ResultKeys == <<W_completed, W_job_id, W_output_length, W_steps>>

RECURSIVE MarshalFields(_, _, _)
MarshalFields(m, k, first) ==
  IF k > Len(ResultKeys) THEN <<>>
  ELSE IF Has(m, ResultKeys[k])
       THEN (IF first THEN <<>> ELSE <<",">>)
            \o <<"\"">> \o ResultKeys[k] \o <<"\"", ":">>
            \o (IF m[ResultKeys[k]].t = "int" THEN Itoa(m[ResultKeys[k]].v)
                ELSE <<"\"">> \o m[ResultKeys[k]].v \o <<"\"">>)
            \o MarshalFields(m, k + 1, FALSE)
       ELSE MarshalFields(m, k + 1, first)

\* json.Marshal(env.Result)
MarshalResult(r) ==
  IF r.isNil THEN W_null
  ELSE <<"{">> \o MarshalFields(r.kv, 1, TRUE) \o <<"}">>


(***************************************************************************)
(* Context.Resolve                                                         *)
(***************************************************************************)

\* The replacement of one match of varPattern (the closure of Resolve).
ResolveMatch(match, c) ==
  LET ref   == SubSeq(match, 3, Len(match) - 1)
      parts == SplitDot(ref)
  IN  IF parts[1] = W_inputs
      THEN IF Len(parts) >= 2 /\ Has(c.Inputs, parts[2])
           THEN c.Inputs[parts[2]] ELSE match
      ELSE IF parts[1] = W_steps
      THEN IF Len(parts) >= 3 /\ Has(c.StepResults, parts[2])
           THEN LET env == c.StepResults[parts[2]]
                IN  IF parts[3] = W_output_ref THEN env.OutputRef
                    ELSE IF parts[3] = W_status THEN env.Status
                    ELSE IF parts[3] = W_result
                    THEN IF Len(parts) = 3 THEN MarshalResult(env.Result)
                         ELSE IF Has(env.Result.kv, parts[4])
                         THEN SprintV(env.Result.kv[parts[4]])
                         ELSE match
                    ELSE match
           ELSE match
      ELSE match

\* varPattern.ReplaceAllStringFunc(s, f) for varPattern = \$\{([^}]+)\}:
\* leftmost matches, left to right, never overlapping; a replacement is not
\* scanned again.
\* A Resolve that scans what it substituted again.
RECURSIVE ResolveAgain(_, _)
ResolveAgain(s, c) ==
  IF s = <<>> THEN <<>>
  ELSE LET close == IF Len(s) >= 2 /\ s[1] = "$" /\ s[2] = "{"
                    THEN IndexOf(From(s, 3), <<"}">>) ELSE 0
           match == SubSeq(s, 1, close + 2)
       IN  IF close >= 2
           THEN IF ResolveMatch(match, c) = match
                THEN match \o ResolveAgain(From(s, close + 3), c)
                ELSE ResolveAgain(ResolveMatch(match, c) \o From(s, close + 3), c)
           ELSE <<Head(s)>> \o ResolveAgain(Tail(s), c)

RECURSIVE Resolve(_, _)
Resolve(s, c) ==
  IF s = <<>> THEN <<>>
  ELSE LET close == IF Len(s) >= 2 /\ s[1] = "$" /\ s[2] = "{"
                    THEN IndexOf(From(s, 3), <<"}">>) ELSE 0
       IN  IF close >= 2
           THEN ResolveMatch(SubSeq(s, 1, close + 2), c)
                \o Resolve(From(s, close + 3), c)
           ELSE <<Head(s)>> \o Resolve(Tail(s), c)

(***************************************************************************)
(* Condition evaluator                                                     *)
(***************************************************************************)
IsDigit(ch) == ch \in {"0", "1", "2", "3", "4", "5", "6", "7", "8", "9"}

DigitVal(ch) == CHOOSE d \in 0..9 : Digits[d + 1] = ch

RECURSIVE DigitsVal(_)
DigitsVal(s) ==
  IF s = <<>> THEN 0 ELSE 10 * DigitsVal(SubSeq(s, 1, Len(s) - 1)) + DigitVal(s[Len(s)])

AllDigits(s) == \A k \in 1..Len(s) : IsDigit(s[k])

RECURSIVE Pow10(_)
Pow10(n) == IF n = 0 THEN 1 ELSE 10 * Pow10(n - 1)

\* strconv.Atoi in the place of strconv.ParseFloat: whole numbers only.
ParseInt(s) ==
  LET signed == s # <<>> /\ s[1] \in {"+", "-"}
      body   == IF signed THEN Tail(s) ELSE s
      ok     == AllDigits(body) /\ body # <<>>
      mag    == IF ok THEN DigitsVal(body) ELSE 0
  IN  [ok |-> ok, nan |-> FALSE, inf |-> 0,
       num |-> IF signed /\ s[1] = "-" THEN 0 - mag ELSE mag, scale |-> 0]

\* strconv.ParseFloat(s, 64) on decimal numerals without exponent,
\* [+-]digits[.digits] with at least one digit, and on the special values:
\* [+-]inf and [+-]infinity, and nan without a sign, in either case of
\* letter.  ok is `err == nil`; the value is NaN (nan), an infinity (inf is
\* its sign), or num / 10^scale, which a float64 holds apart from any other
\* numeral of up to 15 digits.
ParseFloat(s) ==
  LET signed == s # <<>> /\ s[1] \in {"+", "-"}
      neg    == s # <<>> /\ s[1] = "-"
      body   == IF signed THEN Tail(s) ELSE s
      up     == ("I" :> "i") @@ ("N" :> "n") @@ ("F" :> "f") @@ ("A" :> "a")
                @@ ("T" :> "t") @@ ("Y" :> "y")
      lower(t) == [k \in 1..Len(t) |->
                     IF t[k] \in DOMAIN up THEN up[t[k]] ELSE t[k]]
      isInf  == lower(body) \in {<<"i", "n", "f">>,
                                  <<"i", "n", "f", "i", "n", "i", "t", "y">>}
      isNaN  == lower(s) = <<"n", "a", "n">>
      dot    == IndexOf(body, <<".">>)
      int    == IF dot = 0 THEN body ELSE SubSeq(body, 1, dot - 1)
      frac   == IF dot = 0 THEN <<>> ELSE From(body, dot + 1)
      ok     == AllDigits(int) /\ AllDigits(frac) /\ Len(int) + Len(frac) >= 1
      mag    == DigitsVal(int) * Pow10(Len(frac)) + DigitsVal(frac)
  IN  IF isNaN
      THEN [ok |-> TRUE, nan |-> TRUE, inf |-> 0, num |-> 0, scale |-> 0]
      ELSE IF isInf
      THEN [ok |-> TRUE, nan |-> FALSE, inf |-> IF neg THEN 0 - 1 ELSE 1,
            num |-> 0, scale |-> 0]
      ELSE IF ok
      THEN [ok |-> TRUE, nan |-> FALSE, inf |-> 0,
            num |-> IF neg THEN 0 - mag ELSE mag, scale |-> Len(frac)]
      ELSE [ok |-> FALSE, nan |-> FALSE, inf |-> 0, num |-> 0, scale |-> 0]

O_ge == <<">", "=">>
O_le == <<"<", "=">>
O_ne == <<"!", "=">>
O_eq == <<"=", "=">>
O_gt == <<">">>
O_lt == <<"<">>

\* compare(left, op, right).  A comparison with NaN is false, and the
\* infinities lie beyond every number.
compare(left0, op, right0) ==
  LET left  == TrimQuotes(left0)
      right == TrimQuotes(right0)
      lf == ParseFloat(left)
      rf == ParseFloat(right)
      l  == lf.num * Pow10(rf.scale)
      r  == rf.num * Pow10(lf.scale)
      nan == lf.nan \/ rf.nan
      lt == ~nan /\ IF lf.inf # rf.inf THEN lf.inf < rf.inf
                    ELSE lf.inf = 0 /\ l < r
      gt == ~nan /\ IF lf.inf # rf.inf THEN lf.inf > rf.inf
                    ELSE lf.inf = 0 /\ l > r
      eq == ~nan /\ IF lf.inf # rf.inf THEN FALSE
                    ELSE lf.inf # 0 \/ l = r
  IN  IF op = O_eq THEN left = right
      ELSE IF op = O_ne THEN left # right
      ELSE IF op = W_contains THEN Contains(left, right)
      ELSE IF op \in {O_gt, O_lt, O_ge, O_le}
      THEN IF ~lf.ok \/ ~rf.ok THEN FALSE
           ELSE IF op = O_gt THEN gt
           ELSE IF op = O_lt THEN lt
           ELSE IF op = O_ge THEN gt \/ eq
           ELSE lt \/ eq
      ELSE FALSE

\* ops, in the order the loop tries them.
CompareOps == <<O_ge, O_le, O_ne, O_eq, O_gt, O_lt, W_contains>>

\* The first operator of CompareOps that occurs in expr, 0 when none does.
FirstOp(expr) ==
  LET found == {k \in 1..Len(CompareOps) : IndexOf(expr, CompareOps[k]) # 0}
  IN  IF found = {} THEN 0 ELSE CHOOSE k \in found : \A j \in found : k <= j

\* An evaluate that splits on " AND " before it splits on " OR ".
RECURSIVE evaluateAndFirst(_)
evaluateAndFirst(expr0) ==
  LET expr == TrimSpace(expr0)
      or   == IndexOf(expr, W_OR)
      and  == IndexOf(expr, W_AND)
      k    == FirstOp(expr)
  IN  IF and # 0
      THEN evaluateAndFirst(SubSeq(expr, 1, and - 1))
           /\ evaluateAndFirst(From(expr, and + 5))
      ELSE IF or # 0
      THEN evaluateAndFirst(SubSeq(expr, 1, or - 1))
           \/ evaluateAndFirst(From(expr, or + 4))
      ELSE IF k # 0
      THEN LET op  == CompareOps[k]
               idx == IndexOf(expr, op)
           IN  compare(TrimSpace(SubSeq(expr, 1, idx - 1)), op,
                       TrimSpace(From(expr, idx + Len(op))))
      ELSE expr = W_true

RECURSIVE evaluate(_)
evaluate(expr0) ==
  LET expr == TrimSpace(expr0)
      or   == IndexOf(expr, W_OR)
      and  == IndexOf(expr, W_AND)
      k    == FirstOp(expr)
  IN  IF or # 0
      THEN evaluate(SubSeq(expr, 1, or - 1)) \/ evaluate(From(expr, or + 4))
      ELSE IF and # 0
      THEN evaluate(SubSeq(expr, 1, and - 1)) /\ evaluate(From(expr, and + 5))
      ELSE IF k # 0
      THEN LET op  == CompareOps[k]
               idx == IndexOf(expr, op)
           IN  compare(TrimSpace(SubSeq(expr, 1, idx - 1)), op,
                       TrimSpace(From(expr, idx + Len(op))))
      ELSE expr = W_true

\* An EvaluateCondition without the test for the empty expression.
EvaluateUnguarded(condition, c) == evaluate(Resolve(condition, c))

\* EvaluateCondition(condition, ctx)
EvaluateCondition(condition, c) ==
  IF condition = <<>> THEN TRUE ELSE evaluate(Resolve(condition, c))


(***************************************************************************)
(* Bundles                                                                 *)
(***************************************************************************)

\* Longest top-level step list of a drawn bundle.
MaxSteps == 3

\* Longest captured stdout of an external command.
MaxStdoutLen == 0

\* bundle.MergeDef / bundle.VoteDef; NoDef is the nil pointer.
NoDef == [isNil |-> TRUE, Inputs |-> <<>>]
Def(srcs) == [isNil |-> FALSE, Inputs |-> srcs]

\* bundle.Step.  Sub-steps (Parallel, Then, Else) are ids into StepPool; 0 is
\* the nil *Step.
MkStep(name, tool, tsk, par, merge, vote, cond, then, else) ==
  [Name |-> name, Tool |-> tool, Task |-> tsk, Parallel |-> par,
   Merge |-> merge, Vote |-> vote, If |-> cond, Then |-> then, Else |-> else]

ToolStep(name, tool, tsk, cond) ==
  MkStep(name, tool, tsk, <<>>, NoDef, NoDef, cond, 0, 0)

Marker(path) == <<"$", "{">> \o path \o <<"}">>
StepRef(name, field) == Marker(W_steps \o <<".">> \o name \o <<".">> \o field)
InputRef(name) == Marker(W_inputs \o <<".">> \o name)
EqTo(lhs, rhs) == lhs \o <<" ", "=", "=", " ">> \o rhs

\* The steps bundles are drawn from.  1..6 are top-level candidates, the rest
\* are the sub-steps they name.
StepPool ==
  << \* 1: a plain tool step
     ToolStep(<<"a">>, W_claude, <<"t">>, <<>>),
     \* 2: a tool step guarded by the status of a, reading a's output
     ToolStep(<<"b">>, W_gemini, StepRef(<<"a">>, W_output_ref),
              EqTo(StepRef(<<"a">>, W_status), W_success)),
     \* 3: a merge of a and a step no bundle has
     MkStep(<<"c">>, <<>>, <<>>, <<>>, Def(<< <<"a">>, <<"z">> >>), NoDef,
            <<>>, 0, 0),
     \* 4: a conditional with both branches, on an input
     MkStep(<<"k">>, <<>>, <<>>, <<>>, NoDef, NoDef,
            EqTo(InputRef(<<"x">>), <<"1">>), 7, 8),
     \* 5: a conditional without an `if` expression and without else
     MkStep(<<"j">>, <<>>, <<>>, <<>>, NoDef, NoDef, <<>>, 9, 0),
     \* 6: a parallel step with a nested parallel step
     MkStep(<<"p">>, <<>>, <<>>, <<10, 11>>, NoDef, NoDef, <<>>, 0, 0),
     \* 7, 8: then / else of k
     ToolStep(<<"d">>, W_codex, InputRef(<<"x">>), <<>>),
     ToolStep(<<"e">>, W_codex, <<"t">>, <<>>),
     \* 9: then of j, a tool step naming a tool that is not in the registry
     ToolStep(<<"m">>, <<"g", "p", "t">>, <<"t">>, <<>>),
     \* 10: the parallel step nested in p; 11: its sibling, a vote
     MkStep(<<"q">>, <<>>, <<>>, <<12, 13>>, NoDef, NoDef, <<>>, 0, 0),
     MkStep(<<"w">>, <<>>, <<>>, <<>>, NoDef, Def(<< <<"a">>, <<"c">> >>),
            <<>>, 0, 0),
     \* 12, 13: the branches of q; v reads its sibling's status
     ToolStep(<<"u">>, W_claude, <<"t">>, <<>>),
     ToolStep(<<"v">>, W_codex, StepRef(<<"u">>, W_status), <<>>),
     \* 14: a top-level tool step naming a tool that is not in the registry
     ToolStep(<<"n">>, <<"g", "p", "t">>, InputRef(<<"x">>), <<>>),
     \* 15: a step with every shape populated; 16: its then, with every shape
     \* but the conditional
     MkStep(<<"h">>, W_claude, <<"t">>, <<19>>, Def(<< <<"a">> >>),
            Def(<< <<"a">> >>), <<>>, 16, 0),
     MkStep(<<"g">>, W_codex, <<"t">>, <<17, 18>>, Def(<< <<"a">> >>),
            Def(<< <<"a">> >>), <<>>, 0, 0),
     \* 17, 18: the branches of g: a merge of a that is also a vote on a step
     \* no bundle has and a tool step, and such a vote that is also a tool step
     MkStep(<<"f">>, W_codex, <<"t">>, <<>>, Def(<< <<"a">> >>),
            Def(<< <<"z">> >>), <<>>, 0, 0),
     MkStep(<<"o">>, W_codex, <<"t">>, <<>>, NoDef, Def(<< <<"z">> >>),
            <<>>, 0, 0),
     \* 19: the parallel sub-step of h
     ToolStep(<<"r">>, W_claude, <<"t">>, <<>>),
     \* 20: a merge of a, of the conditional step k and of a step no bundle has
     MkStep(<<"s">>, <<>>, <<>>, <<>>, Def(<< <<"a">>, <<"k">>, <<"z">> >>),
            NoDef, <<>>, 0, 0) >>

Ids == 1..Len(StepPool)
TopIds == 1..6 \cup {14}

\* The ids of the steps of a parallel list / the parent of a sub-step.
Children(p) == {StepPool[p].Parallel[k] : k \in 1..Len(StepPool[p].Parallel)}
ParallelIds == {p \in Ids : StepPool[p].Parallel # <<>>}
Parents == [c \in Ids |-> {p \in Ids : c \in Children(p)}]
IsBranch(c) == Parents[c] # {}
ParentOf(c) == CHOOSE p \in Parents[c] : TRUE

\* The sub-steps a step names, and all the steps under it.
SubSteps(id) == Children(id) \cup ({StepPool[id].Then, StepPool[id].Else} \ {0})
RECURSIVE Under(_)
Under(id) == SubSteps(id) \cup UNION {Under(c) : c \in SubSteps(id)}
Tree == [id \in Ids |-> {id} \cup Under(id)]

\* The place of a top-level step in the order step lists keep: n, a, p,
\* and then the others by id.
TopRank(id) ==
  IF StepPool[id].Name = <<"n">> THEN 0
  ELSE IF StepPool[id].Name = <<"a">> THEN 1
  ELSE IF StepPool[id].Name = <<"p">> THEN 2
  ELSE id + 1

\* Sequences of top-level steps of length 1..MaxSteps, strictly increasing
\* in that order: the step lists.
RECURSIVE IncSeqs(_, _)
IncSeqs(n, lo) ==
  IF n = 0 THEN {<<>>}
  ELSE {<<>>} \cup
       UNION {{<<h>> \o t : t \in IncSeqs(n - 1, TopRank(h) + 1)} :
                h \in {x \in TopIds : TopRank(x) >= lo}}

\* The step with every shape populated comes alone or after a, the merge
\* of a and k after k or after both.
StepLists ==
  (IncSeqs(MaxSteps, 0) \ {<<>>})
    \cup {<<15>>, <<1, 15>>, <<4, 20>>, <<1, 4, 20>>}

\* bundle.Input
Decl(name, req, def) == [Name |-> name, Required |-> req, Default |-> def]

\* The input declarations of a bundle with the inputs map a caller hands to
\* Run.
InputCases ==
  { [decls |-> <<>>, supplied |-> <<>>],
    [decls |-> <<Decl(<<"x">>, TRUE, <<"1">>), Decl(<<"y">>, TRUE, <<>>)>>,
     supplied |-> <<>>],
    [decls |-> <<Decl(<<"x">>, TRUE, <<"1">>), Decl(<<"y">>, TRUE, <<>>)>>,
     supplied |-> <<"y">> :> <<"2">>],
    [decls |-> <<Decl(<<"y">>, FALSE, <<"2">>), Decl(<<"x">>, TRUE, <<"0">>)>>,
     supplied |-> <<>>] }

(***************************************************************************)
(* State                                                                   *)
(***************************************************************************)
VARIABLES
  bundle,    \* the *bundle.Bundle handed to Run: [Inputs, Steps]
  supplied,  \* the inputs map as the caller handed it to Run
  inputs,    \* the caller's inputs map (Run writes defaults into it)
  mainPc,    \* where Run is
  i,         \* index into b.Steps of the step Run is at (from 1)
  ws,        \* the workspace: [made, JobID]
  ctx,       \* the run's *Context: [Inputs, StepResults, Variables]
  runRet,    \* what Run returned: [env, err]
  pc,        \* per step: where its Dispatcher.Execute call / goroutine is
  ret,       \* per step: what its Dispatcher.Execute call returned
  task,      \* per tool step: the resolved task handed to the command
  mu,        \* per Parallel call: holder of its local mutex (0: free)
  firstErr,  \* per Parallel call: its firstErr
  results,   \* per Parallel call: its results map
  racedW,    \* per step: its SetResult overlapped another map write
  racedR,    \* per step: its Resolve overlapped a map write
  crashed,   \* the Go runtime aborted the process (fatal error)
  calls,     \* per step name: number of SetResult calls made
  outputs,   \* step names handed to ws.WriteOutput
  cmd,       \* per tool step: what cmd.Run() did, until the caller takes ret
  fn         \* a call of Resolve / EvaluateCondition on its own (NoCall: none)

vars == <<bundle, supplied, inputs, mainPc, i, ws, ctx, runRet, pc, ret, task, mu,
          firstErr, results, racedW, racedR, crashed, calls, outputs, cmd, fn>>

\* error values
NilErr == [kind |-> "nil", step |-> <<>>]
HardErr(name) == [kind |-> "hard", step |-> name]
StepFailedErr(name) == [kind |-> "step_failed", step |-> name]
WorkspaceErr == [kind |-> "workspace", step |-> <<>>]

NoRet == [env |-> NoEnv, err |-> NilErr]

\* The tool registry built by orchestrator.New.
ToolRegistry == {W_claude, W_codex, W_gemini}

\* A registry lookup that finds every tool.
RegisteredAlways(tool) == TRUE

\* ok of `tool, ok := e.Tools[step.Tool]`
Registered(tool) == tool \in ToolRegistry

\* The reference ws.WriteOutput returns for a step's output.
OutputPath(name) == <<"/">> \o name

\* The job id of the workspace.
JobID == <<"J">>

\* Dispatcher.Execute's choice of executor, by which fields are populated.
DispatchKind(st) ==
  IF st.Then # 0 THEN "conditional"
  ELSE IF st.Parallel # <<>> THEN "parallel"
  ELSE IF ~st.Merge.isNil THEN "merge"
  ELSE IF ~st.Vote.isNil THEN "vote"
  ELSE IF st.Tool # <<>> THEN "tool"
  ELSE "unrecognized"

\* cmd.Run() and the stdout buffer it filled: whether it ran, whether
\* err == nil, stdout.Len().
NoCmd == [ran |-> FALSE, ok |-> FALSE, n |-> 0]

\* No call of a function on its own is under way.
NoCall == [op |-> "none"]

\* NewContext(inputs)
NewContext(in) == [Inputs |-> in, StepResults |-> <<>>, Variables |-> <<>>]

\* An assignment that leaves the map with the one entry.
MapOnly(m, k, v) == k :> v

\* The map m after m[k] = v.
MapSet(m, k, v) == [x \in DOMAIN m \cup {k} |-> IF x = k THEN v ELSE m[x]]

\* A SetResult that replaces the map instead of adding to it.
ClobberResults(c, name, env) == [c EXCEPT !.StepResults = (name :> env)]

\* c.SetResult(name, env)
SetResult(c, name, env) ==
  [c EXCEPT !.StepResults = MapSet(c.StepResults, name, env)]

\* calls after one more SetResult(name, _)
Called(cs, name) ==
  MapSet(cs, name, IF name \in DOMAIN cs THEN cs[name] + 1 ELSE 1)

Init ==
  /\ \E ic \in InputCases, sl \in StepLists :
       /\ bundle = [Inputs |-> ic.decls, Steps |-> sl]
       /\ supplied = ic.supplied
       /\ inputs = ic.supplied
  /\ mainPc = "validate"
  /\ i = 0
  /\ ws = [made |-> FALSE, JobID |-> <<>>]
  /\ ctx = NewContext(<<>>)
  /\ runRet = NoRet
  /\ pc = [s \in Ids |-> "idle"]
  /\ ret = [s \in Ids |-> NoRet]
  /\ task = [s \in Ids |-> <<>>]
  /\ mu = [p \in ParallelIds |-> 0]
  /\ firstErr = [p \in ParallelIds |-> NilErr]
  /\ results = [p \in ParallelIds |-> <<>>]
  /\ racedW = [s \in Ids |-> FALSE]
  /\ racedR = [s \in Ids |-> FALSE]
  /\ crashed = FALSE
  /\ calls = <<>>
  /\ outputs = {}
  /\ cmd = [s \in Ids |-> NoCmd]
  /\ fn = NoCall

(***************************************************************************)
(* Orchestrator.Run                                                        *)
(***************************************************************************)

\* A required-input loop that lets every declaration pass.
ValidateNothing(d, k, in) == [missing |-> FALSE, inputs |-> in]

\* The required-input loop: the inputs map after the declarations d[k..] have
\* been visited, and whether one of them made Run return (lines 200-212).
RECURSIVE ValidateFrom(_, _, _)
ValidateFrom(d, k, in) ==
  IF k > Len(d) THEN [missing |-> FALSE, inputs |-> in]
  ELSE IF d[k].Required /\ ~Has(in, d[k].Name)
       THEN IF d[k].Default # <<>>
            THEN ValidateFrom(d, k + 1, MapSet(in, d[k].Name, d[k].Default))
            ELSE [missing |-> TRUE, inputs |-> in]
       ELSE ValidateFrom(d, k + 1, in)

UnchangedExec == UNCHANGED <<pc, ret, task, mu, firstErr, results, racedW, racedR,
                             crashed, outputs, cmd>>

\* Lines 199-212.
ValidateInputs ==
  /\ ~crashed /\ mainPc = "validate"
  /\ LET v == ValidateFrom(bundle.Inputs, 1, inputs)
     IN  /\ inputs' = v.inputs
         /\ IF v.missing
            THEN /\ mainPc' = "returned"
                 /\ runRet' = [env |-> EnvFailure(<<>>, <<>>, <<"MISSING_INPUT">>),
                               err |-> NilErr]
            ELSE /\ mainPc' = "workspace"
                 /\ runRet' = runRet
  /\ UNCHANGED <<fn, bundle, supplied, i, ws, ctx, calls>>
  /\ UnchangedExec

\* Lines 214-225: workspace.New succeeds or fails; then NewContext(inputs).
CreateWorkspace ==
  /\ ~crashed /\ mainPc = "workspace"
  /\ \E ok \in BOOLEAN :
       IF ok
       THEN /\ ws' = [made |-> TRUE, JobID |-> JobID]
            /\ ctx' = NewContext(inputs)
            /\ i' = 1
            /\ mainPc' = "loop"
            /\ runRet' = runRet
       ELSE /\ mainPc' = "returned"
            /\ runRet' = [env |-> EnvFailure(<<>>, <<>>, <<"WORKSPACE_ERROR">>),
                          err |-> WorkspaceErr]
            /\ UNCHANGED <<ws, ctx, i>>
  /\ UNCHANGED <<fn, bundle, supplied, inputs, calls>>
  /\ UnchangedExec

\* A loop that stays at the first step.
CurIdFirst == bundle.Steps[1]

\* The step Run's loop is at: `for i, step := range b.Steps`.
CurId == bundle.Steps[i]

Cur == StepPool[CurId]

AtStep == ~crashed /\ mainPc = "loop" /\ i <= Len(bundle.Steps)

\* A skip test that never skips.
SkipNever(st, c) == FALSE

\* Line 232: the skip test.
SkipTest(st, c) == st.If # <<>> /\ ~EvaluateCondition(st.If, c)

\* Lines 231-236.
StepSkip ==
  /\ AtStep
  /\ SkipTest(Cur, ctx)
  /\ ctx' = SetResult(ctx, Cur.Name, EnvLit(StatusSkipped))
  /\ calls' = Called(calls, Cur.Name)
  /\ i' = i + 1
  /\ UNCHANGED <<fn, bundle, supplied, inputs, mainPc, ws, runRet>>
  /\ UnchangedExec

\* Lines 238-254, up to the call of the branch: which sub-step the
\* conditional step dispatches (0: none).
CondBranch(st, c) ==
  IF EvaluateCondition(st.If, c) THEN st.Then
  ELSE IF st.Else # 0 THEN st.Else
  ELSE 0

StepCond ==
  /\ AtStep
  /\ ~SkipTest(Cur, ctx)
  /\ Cur.Then # 0
  /\ LET sub == CondBranch(Cur, ctx)
     IN  IF sub # 0
         THEN /\ pc' = [pc EXCEPT ![sub] = "called"]
              /\ mainPc' = "cond"
              /\ i' = i
         ELSE /\ pc' = pc
              /\ mainPc' = mainPc
              /\ i' = i + 1
  /\ UNCHANGED <<fn, bundle, supplied, inputs, ws, ctx, runRet, ret, task, mu, firstErr,
                 results, racedW, racedR, crashed, calls, outputs, cmd>>

\* Whether Run returns after recording a conditional step's branch
\* (lines 243-245, 249-251).
CondHalts(r) == r.err # NilErr

\* Lines 241-245 / 247-251, from the return of the branch's dispatch.
CondReturn ==
  /\ ~crashed /\ mainPc = "cond"
  /\ \E sub \in {Cur.Then, Cur.Else} \ {0} :
     LET r == ret[sub]
     IN  /\ pc[sub] = "returned"
         /\ pc' = [pc EXCEPT ![sub] = "done"]
         /\ cmd' = [cmd EXCEPT ![sub] = NoCmd]
         /\ ctx' = SetResult(ctx, Cur.Name, r.env)
         /\ calls' = Called(calls, Cur.Name)
         /\ IF CondHalts(r)
            THEN /\ mainPc' = "returned"
                 /\ runRet' = r
                 /\ i' = i
            ELSE /\ mainPc' = "loop"
                 /\ runRet' = runRet
                 /\ i' = i + 1
  /\ UNCHANGED <<fn, bundle, supplied, inputs, ws, ret, task, mu, firstErr, results, racedW,
                 racedR, crashed, outputs>>

\* A Run that hands a step to the dispatcher without looking at its `then`.
StepDispatchAny ==
  /\ AtStep
  /\ ~SkipTest(Cur, ctx)
  /\ pc' = [pc EXCEPT ![CurId] = "called"]
  /\ mainPc' = "dispatch"
  /\ UNCHANGED <<fn, bundle, supplied, inputs, i, ws, ctx, runRet, ret, task, mu, firstErr,
                 results, racedW, racedR, crashed, calls, outputs, cmd>>

\* Line 257: the call of the dispatcher for a step that is no conditional.
StepDispatch ==
  /\ AtStep
  /\ ~SkipTest(Cur, ctx)
  /\ Cur.Then = 0
  /\ pc' = [pc EXCEPT ![CurId] = "called"]
  /\ mainPc' = "dispatch"
  /\ UNCHANGED <<fn, bundle, supplied, inputs, i, ws, ctx, runRet, ret, task, mu, firstErr,
                 results, racedW, racedR, crashed, calls, outputs, cmd>>

\* A Run that also returns at a Partial envelope.
HaltsOnPartial(env) == env.Status \in {StatusFailure, StatusPartial}

\* A Run that goes on whatever the recorded envelope's status.
HaltsNever(env) == FALSE

\* Whether Run returns after recording a step's envelope (line 266).
StepHalts(env) == env.Status = StatusFailure

\* Lines 257-268, from the return of the dispatcher.
StepReturn ==
  /\ ~crashed /\ mainPc = "dispatch"
  /\ pc[CurId] = "returned"
  /\ pc' = [pc EXCEPT ![CurId] = "done"]
  /\ cmd' = [cmd EXCEPT ![CurId] = NoCmd]
  /\ LET r == ret[CurId]
     IN  IF r.err # NilErr
         THEN /\ mainPc' = "returned"
              /\ runRet' = r
              /\ UNCHANGED <<ctx, calls, i>>
         ELSE /\ ctx' = SetResult(ctx, Cur.Name, r.env)
              /\ calls' = Called(calls, Cur.Name)
              /\ IF StepHalts(r.env)
                 THEN /\ mainPc' = "returned"
                      /\ runRet' = [env |-> r.env, err |-> StepFailedErr(Cur.Name)]
                      /\ i' = i
                 ELSE /\ mainPc' = "loop"
                      /\ runRet' = runRet
                      /\ i' = i + 1
  /\ UNCHANGED <<fn, bundle, supplied, inputs, ws, ret, task, mu, firstErr, results, racedW,
                 racedR, crashed, outputs>>

\* Lines 271-281.
Finish ==
  /\ ~crashed /\ mainPc = "loop" /\ i > Len(bundle.Steps)
  /\ mainPc' = "returned"
  /\ runRet' = [env |-> WithDuration(
                            EnvSuccess(<<>>, <<>>,
                              MapOf(W_steps :> IntV(Len(bundle.Steps))
                                    @@ W_job_id :> StrV(ws.JobID))),
                            DurRun),
                err |-> NilErr]
  /\ UNCHANGED <<fn, bundle, supplied, inputs, i, ws, ctx, calls>>
  /\ UnchangedExec


(***************************************************************************)
(* ToolExecutor.Execute                                                    *)
(***************************************************************************)

\* Steps whose goroutine is inside c.SetResult / inside c.Resolve.
Writers == {s \in Ids : pc[s] = "writing"}
Readers == {s \in Ids : pc[s] = "resolving"}

\* Lines 20-26: the registry lookup, then the call of ctx.Resolve.
ToolStart(s) ==
  /\ ~crashed /\ pc[s] = "called"
  /\ DispatchKind(StepPool[s]) = "tool"
  /\ IF Registered(StepPool[s].Tool)
     THEN /\ pc' = [pc EXCEPT ![s] = "resolving"]
          /\ racedR' = [racedR EXCEPT ![s] = (Writers # {})]
          /\ ret' = ret
     ELSE /\ pc' = [pc EXCEPT ![s] = "returned"]
          /\ ret' = [ret EXCEPT ![s] =
                       [env |-> EnvFailure(<<>>, <<>>, <<"TOOL_NOT_FOUND">>),
                        err |-> NilErr]]
          /\ racedR' = racedR
  /\ UNCHANGED <<fn, bundle, supplied, inputs, mainPc, i, ws, ctx, runRet, task, mu, firstErr,
                 results, racedW, crashed, calls, outputs, cmd>>

\* Line 26: ctx.Resolve(step.Task) returns.  A Resolve that overlapped a
\* write of StepResults is a data race on a Go map: the runtime may abort
\* ("concurrent map read and map write") or the read goes through.
ToolResolved(s) ==
  /\ ~crashed /\ pc[s] = "resolving"
  /\ \E abort \in {FALSE, racedR[s]} :
       IF abort
       THEN /\ crashed' = TRUE
            /\ UNCHANGED <<pc, task, racedR>>
       ELSE /\ crashed' = crashed
            /\ pc' = [pc EXCEPT ![s] = "running"]
            /\ task' = [task EXCEPT ![s] = Resolve(StepPool[s].Task, ctx)]
            /\ racedR' = [racedR EXCEPT ![s] = FALSE]
  /\ UNCHANGED <<fn, bundle, supplied, inputs, mainPc, i, ws, ctx, runRet, ret, mu, firstErr,
                 results, racedW, calls, outputs, cmd>>

\* An envelope that ignores the command's error.
ToolEnvelopeSuccess(st, ok, n) ==
  WithDuration(EnvSuccess(st.Tool, OutputPath(st.Name),
                          MapOf(W_output_length :> IntV(n))), DurStep)

\* Lines 60-72: the envelope built from the command's error and stdout.
ToolEnvelope(st, ok, n) ==
  WithDuration(
    IF ok
    THEN EnvSuccess(st.Tool, OutputPath(st.Name), MapOf(W_output_length :> IntV(n)))
    ELSE EnvFailure(st.Tool, OutputPath(st.Name), <<"EXEC_FAILED">>),
    DurStep)

\* Lines 43-72: the command runs (it fails or not, and writes n bytes to
\* stdout), its output is written, the envelope is returned.
ToolRun(s) ==
  /\ ~crashed /\ pc[s] = "running"
  /\ \E ok \in BOOLEAN, n \in 0..MaxStdoutLen :
       /\ cmd' = [cmd EXCEPT ![s] = [ran |-> TRUE, ok |-> ok, n |-> n]]
       /\ ret' = [ret EXCEPT ![s] = [env |-> ToolEnvelope(StepPool[s], ok, n),
                                     err |-> NilErr]]
  /\ outputs' = outputs \cup {StepPool[s].Name}
  /\ task' = [task EXCEPT ![s] = <<>>]
  /\ pc' = [pc EXCEPT ![s] = "returned"]
  /\ UNCHANGED <<fn, bundle, supplied, inputs, mainPc, i, ws, ctx, runRet, mu, firstErr,
                 results, racedW, racedR, crashed, calls>>

(***************************************************************************)
(* MergeExecutor / VoteExecutor / unrecognized steps                       *)
(***************************************************************************)

\* The source names of a merge or vote step that the Context holds, the
\* Skipped marker counted as a source.
SourcesRecorded(st, c) ==
  LET srcs == IF ~st.Merge.isNil THEN st.Merge.Inputs ELSE st.Vote.Inputs
  IN  {srcs[k] : k \in 1..Len(srcs)} \cap DOMAIN c.StepResults

\* The sources a merge or vote step aggregates: those it names that the
\* Context holds an envelope of, the Skipped marker apart.
SourcesPresent(st, c) ==
  LET srcs == IF ~st.Merge.isNil THEN st.Merge.Inputs ELSE st.Vote.Inputs
  IN  {n \in {srcs[k] : k \in 1..Len(srcs)} \cap DOMAIN c.StepResults :
         c.StepResults[n].Status # StatusSkipped}

\* What a merge, vote or unrecognized step can return.
AggregateOutcomes(st, c) ==
  IF DispatchKind(st) = "unrecognized"
  THEN {[env |-> EnvFailure(<<>>, <<>>, <<"TOOL_NOT_FOUND">>), err |-> NilErr]}
  ELSE IF SourcesPresent(st, c) = {}
  THEN {[env |-> EnvFailure(<<>>, <<>>, <<"MISSING_INPUT">>), err |-> NilErr]}
  ELSE {[env |-> EnvSuccess(<<>>, OutputPath(st.Name), MapOf(<<>>)), err |-> NilErr],
        [env |-> EnvFailure(<<>>, <<>>, <<"NO_CONSENSUS">>), err |-> NilErr],
        [env |-> EnvFailure(<<>>, <<>>, <<"INTERNAL">>), err |-> HardErr(st.Name)]}

AggregateExec(s) ==
  /\ ~crashed /\ pc[s] = "called"
  /\ DispatchKind(StepPool[s]) \in {"merge", "vote", "unrecognized"}
  /\ \E r \in AggregateOutcomes(StepPool[s], ctx) :
       ret' = [ret EXCEPT ![s] = r]
  /\ pc' = [pc EXCEPT ![s] = "returned"]
  /\ UNCHANGED <<fn, bundle, supplied, inputs, mainPc, i, ws, ctx, runRet, task, mu, firstErr,
                 results, racedW, racedR, crashed, calls, outputs, cmd>>

(***************************************************************************)
(* ParallelExecutor.Execute                                                *)
(***************************************************************************)

\* Lines 17-35: the locals are made, one goroutine per sub-step is started.
ParallelStart(p) ==
  /\ ~crashed /\ pc[p] = "called"
  /\ DispatchKind(StepPool[p]) = "parallel"
  /\ pc' = [s \in Ids |-> IF s = p THEN "waiting"
                          ELSE IF s \in Children(p) THEN "called"
                          ELSE pc[s]]
  /\ UNCHANGED <<fn, bundle, supplied, inputs, mainPc, i, ws, ctx, runRet, ret, task, mu,
                 firstErr, results, racedW, racedR, crashed, calls, outputs, cmd>>

\* Lines 29-31: firstErr after a branch reports err.
FirstErrAfter(cur, err) == IF err # NilErr /\ cur = NilErr THEN err ELSE cur

\* Whether the branch of sub-step c may take its Parallel call's mutex
\* (line 27).
MayLock(c) == mu[ParentOf(c)] = 0

\* Lines 27-33, up to the map assignment inside ctx.SetResult: the branch
\* holds the mutex, has set firstErr and results, and is writing StepResults.
BranchLock(c) ==
  /\ ~crashed /\ pc[c] = "returned" /\ IsBranch(c)
  /\ MayLock(c)
  /\ LET p == ParentOf(c)
     IN  /\ mu' = [mu EXCEPT ![p] = c]
         /\ firstErr' = [firstErr EXCEPT ![p] = FirstErrAfter(firstErr[p], ret[c].err)]
         /\ results' = [results EXCEPT ![p] = MapSet(results[p], StepPool[c].Name, ret[c].env)]
  /\ pc' = [pc EXCEPT ![c] = "writing"]
  /\ cmd' = [cmd EXCEPT ![c] = NoCmd]
  /\ racedW' = [s \in Ids |-> IF Writers # {} /\ (s = c \/ s \in Writers)
                              THEN TRUE ELSE racedW[s]]
  /\ racedR' = [s \in Ids |-> IF s \in Readers THEN TRUE ELSE racedR[s]]
  /\ UNCHANGED <<fn, bundle, supplied, inputs, mainPc, i, ws, ctx, runRet, ret, task, crashed,
                 calls, outputs>>

\* What an assignment to StepResults can do: it goes through; or, when it
\* overlapped another assignment (a data race on a Go map), the entry is
\* lost or the runtime aborts ("concurrent map writes").
WriteOutcomes(c) == IF racedW[c] THEN {"ok", "lost", "abort"} ELSE {"ok"}

\* Lines 33-34 and the deferred calls: SetResult returns, mu.Unlock(),
\* wg.Done().
BranchUnlock(c) ==
  /\ ~crashed /\ pc[c] = "writing"
  /\ \E o \in WriteOutcomes(c) :
       IF o = "abort"
       THEN /\ crashed' = TRUE
            /\ UNCHANGED <<ctx, calls, mu, pc, racedW>>
       ELSE /\ crashed' = crashed
            /\ ctx' = IF o = "ok" THEN SetResult(ctx, StepPool[c].Name, ret[c].env)
                      ELSE ctx
            /\ calls' = Called(calls, StepPool[c].Name)
            /\ mu' = [mu EXCEPT ![ParentOf(c)] = 0]
            /\ pc' = [pc EXCEPT ![c] = "done"]
            /\ racedW' = [racedW EXCEPT ![c] = FALSE]
  /\ UNCHANGED <<fn, bundle, supplied, inputs, mainPc, i, ws, runRet, ret, task, firstErr,
                 results, racedR, outputs, cmd>>

\* Lines 39-51: the aggregate status, from the results map.
AggregateStatus(res) ==
  IF \A n \in DOMAIN res : res[n].Status = StatusSuccess
  THEN StatusSuccess ELSE StatusPartial

\* Whether wg.Wait() (line 37) lets the Parallel call p go on.
WaitOver(p) == \A c \in Children(p) : pc[c] = "done"

\* Lines 37-59.
ParallelJoin(p) ==
  /\ ~crashed /\ pc[p] = "waiting"
  /\ WaitOver(p)
  /\ ret' = [ret EXCEPT ![p] =
               [env |-> [Status |-> AggregateStatus(results[p]), Tool |-> <<>>,
                         OutputRef |-> <<>>,
                         Result |-> MapOf(W_steps :> IntV(Cardinality(DOMAIN results[p]))
                                          @@ W_completed :> IntV(Cardinality(DOMAIN results[p]))),
                         ErrCode |-> <<>>, Duration |-> DurUnset],
                err |-> firstErr[p]]]
  /\ pc' = [pc EXCEPT ![p] = "returned"]
  /\ firstErr' = [firstErr EXCEPT ![p] = NilErr]
  /\ results' = [results EXCEPT ![p] = <<>>]
  /\ UNCHANGED <<fn, bundle, supplied, inputs, mainPc, i, ws, ctx, runRet, task, mu, racedW,
                 racedR, crashed, calls, outputs, cmd>>

(***************************************************************************)
(* Specification                                                           *)
(***************************************************************************)
Next ==
  \/ ValidateInputs
  \/ CreateWorkspace
  \/ StepSkip
  \/ StepCond
  \/ CondReturn
  \/ StepDispatch
  \/ StepReturn
  \/ Finish
  \/ \E s \in Ids : ToolStart(s)
  \/ \E s \in Ids : ToolResolved(s)
  \/ \E s \in Ids : ToolRun(s)
  \/ \E s \in Ids : AggregateExec(s)
  \/ \E s \in Ids : ParallelStart(s)
  \/ \E s \in Ids : BranchLock(s)
  \/ \E s \in Ids : BranchUnlock(s)
  \/ \E s \in Ids : ParallelJoin(s)

Spec == Init /\ [][Next]_vars

(***************************************************************************)
(* Context.Resolve and EvaluateCondition called on their own               *)
(***************************************************************************)

\* Most comparisons joined by AND and OR in a drawn condition.
MaxAtoms == 3

\* strings.Join(path, ".")
RECURSIVE JoinDot(_)
JoinDot(path) ==
  IF path = <<>> THEN <<>>
  ELSE IF Len(path) = 1 THEN path[1]
  ELSE path[1] \o <<".">> \o JoinDot(Tail(path))

\* A template is a sequence of segments: literal text, or a ${...} marker
\* given by the dot-separated parts of its reference.
Lit(text) == [kind |-> "lit", text |-> text, path |-> <<>>]
Ref(path) == [kind |-> "ref", text |-> Marker(JoinDot(path)), path |-> path]

RECURSIVE TemplateText(_)
TemplateText(segs) ==
  IF segs = <<>> THEN <<>> ELSE Head(segs).text \o TemplateText(Tail(segs))

\* Literal text around the markers.  None holds "${".
Lits == { <<>>, <<"a">>, <<"$">>, <<"}">>, <<"{", "b", " ">>, <<"y", "}">> }

\* References by their parts.
Paths ==
  { <<W_inputs, <<"x">>>>, <<W_inputs, <<"q">>>>, <<W_inputs>>,
    <<W_inputs, <<"x">>, <<"y">>>>,
    <<W_steps, <<"a">>, W_status>>, <<W_steps, <<"a">>, W_output_ref>>,
    <<W_steps, <<"a">>, W_result>>,
    <<W_steps, <<"a">>, W_result, W_output_length>>,
    <<W_steps, <<"a">>, W_result, <<"n">>>>,
    <<W_steps, <<"b">>, W_result>>,
    <<W_steps, <<"z">>, W_status>>, <<W_steps, <<"a">>>>,
    <<W_steps, <<"a">>, <<"o">>>>,
    <<<<"v", "a", "r", "s">>, <<"x">>>>,
    <<W_steps, <<"a">>, W_status, <<"x">>>>,
    <<W_steps, <<"a">>, W_result, W_output_length, <<"x">>>> }

\* Templates of one marker between two literals, and of two markers around
\* one literal.
Templates ==
  {<<Lit(l), Ref(p), Lit(r)>> : l \in Lits, p \in Paths, r \in Lits}
    \cup {<<Ref(p), Lit(l), Ref(q)>> :
            p \in {<<W_inputs, <<"x">>>>, <<W_steps, <<"z">>, W_status>>},
            l \in Lits,
            q \in {<<W_steps, <<"a">>, W_status>>, <<W_inputs>>}}

\* Contexts: a new one; one with an input and the results of a tool step
\* that succeeded and of a skipped step; one whose input value is itself a
\* marker, with the result of a tool step that failed; one whose input value
\* is the beginning of a marker.
FnContexts ==
  { NewContext(<<>>),
    [NewContext(<<"x">> :> <<"5">>) EXCEPT !.StepResults =
       (<<"a">> :> ToolEnvelope(StepPool[1], TRUE, 0))
         @@ (<<"b">> :> EnvLit(StatusSkipped))],
    [NewContext((<<"x">> :> InputRef(<<"y">>)) @@ (<<"y">> :> <<"7">>))
       EXCEPT !.StepResults =
         (<<"a">> :> ToolEnvelope(StepPool[1], FALSE, 0))],
    NewContext((<<"x">> :> (<<"$", "{">> \o W_inputs \o <<".">>))
                 @@ (<<"y">> :> <<"7">>)) }

\* Comparisons whose value is known without evaluating them.
Atom(text, val) == [text |-> text, val |-> val]
Atoms ==
  { Atom(<<"5", " ", ">", " ", "3">>, TRUE),
    Atom(<<"2", " ", "<", " ", "1">>, FALSE),
    Atom(<<"a", " ", "=", "=", " ", "a">>, TRUE),
    Atom(<<"a", " ", "!", "=", " ", "a">>, FALSE),
    Atom(<<"'", "a", "b", "'">> \o W_contains \o <<"b">>, TRUE) }

\* Every sequence over S of length n.
SeqsOf(S, n) == [1..n -> S]

\* The condition made of the atoms joined, in order, by the connectives.
RECURSIVE ExprText(_, _)
ExprText(atoms, conns) ==
  IF Len(atoms) = 1 THEN atoms[1].text
  ELSE atoms[1].text \o conns[1] \o ExprText(Tail(atoms), Tail(conns))

\* Operands of a numeric comparison, each with the number it denotes,
\* <<n, d>> for n/d and <<s, 0>> for the infinity of sign s, or <<>> when it
\* denotes none: numerals, quoted and signed ones, the special values, and
\* what is no number, an unresolved marker among them.
Operands ==
  { [text |-> <<"5">>, val |-> <<5, 1>>],
    [text |-> <<"'", "5", "'">>, val |-> <<5, 1>>],
    [text |-> <<"5", ".", "0">>, val |-> <<5, 1>>],
    [text |-> <<"1", "0">>, val |-> <<10, 1>>],
    [text |-> <<"-", "3">>, val |-> <<0 - 3, 1>>],
    [text |-> <<"+", ".", "5">>, val |-> <<1, 2>>],
    [text |-> <<"0", ".", "2", "5">>, val |-> <<1, 4>>],
    [text |-> <<"I", "n", "f">>, val |-> <<1, 0>>],
    [text |-> <<"-", "i", "n", "f">>, val |-> <<0 - 1, 0>>],
    [text |-> <<"N", "a", "N">>, val |-> <<>>],
    [text |-> <<>>, val |-> <<>>],
    [text |-> <<"5", "a">>, val |-> <<>>],
    [text |-> <<"'", " ", "5", "'">>, val |-> <<>>],
    [text |-> <<"$", "{">> \o W_inputs \o <<".", "q", "}">>, val |-> <<>>] }

\* Conditions without connective or comparison operator, each with what it
\* is between its leading and trailing white space.
Bare ==
  { [text |-> W_true, core |-> W_true],
    [text |-> <<" ">> \o W_true, core |-> W_true],
    [text |-> W_true \o <<"\n">>, core |-> W_true],
    [text |-> <<"f", "a", "l", "s", "e">>, core |-> <<"f", "a", "l", "s", "e">>],
    [text |-> <<"T", "R", "U", "E">>, core |-> <<"T", "R", "U", "E">>],
    [text |-> <<"T", "r", "u", "e">>, core |-> <<"T", "r", "u", "e">>],
    [text |-> <<"'">> \o W_true \o <<"'">>, core |-> <<"'">> \o W_true \o <<"'">>],
    [text |-> W_true \o <<"s">>, core |-> W_true \o <<"s">>],
    [text |-> <<"t", "r", " ", "u", "e">>, core |-> <<"t", "r", " ", "u", "e">>],
    [text |-> <<"1">>, core |-> <<"1">>],
    [text |-> <<" ">>, core |-> <<>>],
    [text |-> <<>>, core |-> <<>>],
    [text |-> <<"$", "{">> \o W_inputs \o <<".", "q", "}">>,
     core |-> <<"$", "{">> \o W_inputs \o <<".", "q", "}">>] }

\* Longest condition, in pieces, that evaluate is followed through.
MaxTokens == 3

\* The pieces conditions are made of: operands, comparisons, connectives
\* with and without their operands, markers.
Tokens ==
  { Lit(W_true), Lit(<<"x">>), Lit(<<"1", ">", "0">>), Lit(W_OR), Lit(W_AND),
    Lit(W_true \o W_OR), Lit(<<"x">> \o W_AND),
    Ref(<<W_inputs, <<"x">>>>), Ref(<<W_inputs, <<"q">>>>) }

\* expr[:idx+4] and expr[idx+4:]: the connective stays in the left part.
SplitAfter(expr, idx, n) ==
  [left |-> SubSeq(expr, 1, idx + n - 1), right |-> From(expr, idx + n)]

\* expr[:idx] and expr[idx+4:] (idx+5 for " AND "), idx counted from 1.
SplitAt(expr, idx, n) ==
  [left |-> SubSeq(expr, 1, idx - 1), right |-> From(expr, idx + n)]

\* Values of the input x and literals it is compared with, each with what
\* it is once trimmed and stripped of its quotes.
Values ==
  { [text |-> <<"2">>, norm |-> <<"2">>],
    [text |-> <<"'", "2", "'">>, norm |-> <<"2">>],
    [text |-> <<"3">>, norm |-> <<"3">>],
    [text |-> <<"a", " ", "b">>, norm |-> <<"a", " ", "b">>],
    [text |-> W_true \o W_OR \o <<"x">>, norm |-> W_true \o W_OR \o <<"x">>],
    [text |-> <<"2">> \o W_AND \o <<"2">>, norm |-> <<"2">> \o W_AND \o <<"2">>],
    [text |-> <<"3", " ", "!", "=", " ", "3">>,
     norm |-> <<"3", " ", "!", "=", " ", "3">>] }

(***************************************************************************)
(* bundle.Load                                                             *)
(***************************************************************************)

\* Longest drawn bundle name, the long names apart.
MaxNameLen == 2

\* The limit of `len(name) > 100`.
MaxBundleName == 100

E_invalid_name == <<"i", "n", "v", "a", "l", "i", "d", " ", "b", "u", "n", "d", "l", "e", " ",
  "n", "a", "m", "e">>
\* An error value: nil, or one with a message.
NoError == [isNil |-> TRUE, msg |-> <<>>]
Errorf(msg) == [isNil |-> FALSE, msg |-> msg]

\* [a-zA-Z0-9]
Alnum ==
  {"a", "b", "c", "d", "e", "f", "g", "h", "i", "j", "k", "l", "m", "n", "o",
   "p", "q", "r", "s", "t", "u", "v", "w", "x", "y", "z", "A", "B", "C", "D",
   "E", "F", "G", "H", "I", "J", "K", "L", "M", "N", "O", "P", "Q", "R", "S",
   "T", "U", "V", "W", "X", "Y", "Z", "0", "1", "2", "3", "4", "5", "6", "7",
   "8", "9"}

\* validBundleNamePattern.MatchString(name): ^[a-zA-Z0-9][a-zA-Z0-9_-]*$
\* ($ is the end of the text: the pattern has no multi-line flag).
MatchBundleName(name) ==
  /\ name # <<>>
  /\ name[1] \in Alnum
  /\ \A k \in 2..Len(name) : name[k] \in Alnum \cup {"_", "-"}

\* validateBundleName(name); the three messages begin alike and are cut
\* after "invalid bundle name".
validateBundleName(name) ==
  IF name = <<>> THEN Errorf(E_invalid_name)
  ELSE IF Len(name) > MaxBundleName THEN Errorf(E_invalid_name)
  ELSE IF ~MatchBundleName(name) THEN Errorf(E_invalid_name)
  ELSE NoError

\* Load(name), given what reading the user file and the builtin file gives:
\* "absent" (the read fails), "json" (a bundle) or "bad" (Unmarshal fails).
\* read is the set of files Load has tried to read.
Load(name, user, builtin) ==
  LET invalid  == <<"i","n","v","a","l","i","d", " ","b","u","n","d","l","e"," ">>
      builtin_ == <<"i","n","v","a","l","i","d", " ","b","u","i","l","t","i","n", " ","b","u","n","d","l","e"," ">>
      notfound == <<"b","u","n","d","l","e", " ","n","o","t", " ","f","o","u","n","d",":"," ">>
      json     == <<":", " ">> \o <<"E","O","F">>
  IN  IF ~validateBundleName(name).isNil
      THEN [err |-> validateBundleName(name), read |-> {}]
      ELSE IF user = "bad"
      THEN [err |-> Errorf(invalid \o name \o json), read |-> {"user"}]
      ELSE IF user = "json" THEN [err |-> NoError, read |-> {"user"}]
      ELSE IF builtin = "absent"
      THEN [err |-> Errorf(notfound \o name), read |-> {"user", "builtin"}]
      ELSE IF builtin = "bad"
      THEN [err |-> Errorf(builtin_ \o name \o json),
            read |-> {"user", "builtin"}]
      ELSE [err |-> NoError, read |-> {"user", "builtin"}]

\* n times the character ch.
Repeat(ch, n) == [k \in 1..n |-> ch]

\* Bundle names: every short one over a few characters, names about the
\* length limit, and some words.
Names ==
  UNION {[1..n -> {"a", "Z", "7", "_", "-", ".", "/", "\\", "\n"}] :
           n \in 0..MaxNameLen}
    \cup {Repeat("a", n) : n \in {MaxBundleName - 1, MaxBundleName,
                                   MaxBundleName + 1}}
    \cup {<<"-">> \o Repeat("a", MaxBundleName),
          Repeat("a", MaxBundleName - 1) \o <<"/">>,
          <<"n", "a", "m", "e">>,
          <<"n", "a", "m", "e", "-", "1">>,
          <<".", ".", "/", "e", "t", "c">>}


(***************************************************************************)
(* runner.StreamParser                                                     *)
(***************************************************************************)

\* Most lines fed to one StreamParser.
MaxLines == 3

\* The lines a parser is fed, by what they hold: nothing, blanks, text that
\* is no JSON, and the events of the stream.
Lines ==
  {"", "   ", "not json", "system/init", "system/other", "assistant/text",
   "result", "result/error"}

\* NewStreamParser(w)
NewStreamParser == [initialized |-> FALSE, usage |-> FALSE]

\* A ProcessLine that prints the initialization message at every
\* system/init event.
ProcessLineEveryInit(p, line) ==
  [p   |-> [initialized |-> p.initialized \/ line = "system/init",
            usage |-> p.usage \/ line = "result"],
   out |-> IF line = "system/init" THEN <<"initialized">>
           ELSE IF line = "not json" THEN <<line>>
           ELSE IF line = "assistant/text" THEN <<"text">>
           ELSE IF line = "result/error" THEN <<"failed">>
           ELSE <<>>]

\* p.ProcessLine(line): the parser after the call and what the call wrote.
ProcessLine(p, line) ==
  [p   |-> [initialized |-> p.initialized \/ line = "system/init",
            usage |-> p.usage \/ line = "result"],
   out |-> IF line = "system/init"
           THEN IF p.initialized THEN <<>> ELSE <<"initialized">>
           ELSE IF line = "not json" THEN <<line>>
           ELSE IF line = "assistant/text" THEN <<"text">>
           ELSE IF line = "result/error" THEN <<"failed">>
           ELSE <<>>]

(***************************************************************************)
(* claude.Tool.IsClaudeMax                                                 *)
(***************************************************************************)

\* Most goroutines calling IsClaudeMax on one Tool.
MaxCallers == 3

\* claude.New(), with n goroutines about to call IsClaudeMax.  done and m
\* are checkOnce's flag and mutex (0: unlocked, else the holder); checks
\* counts the calls of tracking.GetClaudeStatus.
NewTool(n) ==
  [op |-> "IsClaudeMax", done |-> FALSE, m |-> 0, isClaudeMax |-> FALSE,
   checks |-> 0, raced |-> FALSE, at |-> [g \in 1..n |-> "Do"],
   got |-> [g \in 1..n |-> FALSE]]

\* A mutex that never makes a goroutine wait.
MutexFreeAlways(m) == TRUE

\* Whether m.Lock() goes through.
MutexFree(m) == m = 0

\* Orchestrator.Run is not running.
RunIdle ==
  /\ bundle = [Inputs |-> <<>>, Steps |-> <<1>>]
  /\ supplied = <<>>
  /\ inputs = <<>>
  /\ mainPc = "validate"
  /\ i = 0
  /\ ws = [made |-> FALSE, JobID |-> <<>>]
  /\ ctx = NewContext(<<>>)
  /\ runRet = NoRet
  /\ pc = [s \in Ids |-> "idle"]
  /\ ret = [s \in Ids |-> NoRet]
  /\ task = [s \in Ids |-> <<>>]
  /\ mu = [p \in ParallelIds |-> 0]
  /\ firstErr = [p \in ParallelIds |-> NilErr]
  /\ results = [p \in ParallelIds |-> <<>>]
  /\ racedW = [s \in Ids |-> FALSE]
  /\ racedR = [s \in Ids |-> FALSE]
  /\ crashed = FALSE
  /\ calls = <<>>
  /\ outputs = {}
  /\ cmd = [s \in Ids |-> NoCmd]

\* A call about to be made: c.Resolve(s) on a template and a context,
\* EvaluateCondition(condition, c) on a condition and a context, or
\* Run's test of a step's condition, on a condition that is one numeric
\* comparison, has no operator at all, or compares an input with a literal,
\* EvaluateCondition followed call by call through evaluate,
\* Load(name) on a name and the bundle files there are,
\* NewStreamParser(&buf), or claude.New() and its callers.
InitFn ==
  /\ RunIdle
  /\ \/ \E t \in Templates, c \in FnContexts :
          fn = [op |-> "Resolve", done |-> FALSE, segs |-> t, c |-> c,
                out |-> <<>>]
     \/ \E n \in 1..MaxAtoms :
          \E atoms \in SeqsOf(Atoms, n),
             conns \in SeqsOf({W_AND, W_OR}, n - 1) :
            fn = [op |-> "EvaluateCondition", done |-> FALSE,
                  atoms |-> atoms, conns |-> conns, c |-> NewContext(<<>>),
                  out |-> FALSE]
     \/ \E left, right \in Operands, cop \in {O_gt, O_lt, O_ge, O_le},
           pad \in {<<>>, <<" ">>} :
          fn = [op |-> "Condition", done |-> FALSE,
                text |-> left.text \o pad \o cop \o pad \o right.text,
                left |-> left, cop |-> cop, right |-> right,
                c |-> NewContext(<<>>), out |-> FALSE, skip |-> FALSE]
     \/ \E value \in Values, lit \in {v \in Values : Len(v.text) <= 3} :
          fn = [op |-> "Condition", done |-> FALSE,
                text |-> EqTo(InputRef(<<"x">>), lit.text),
                value |-> value, lit |-> lit,
                c |-> NewContext(<<"x">> :> value.text), out |-> FALSE,
                skip |-> FALSE]
     \/ \E e \in Bare :
          fn = [op |-> "Condition", done |-> FALSE, text |-> e.text,
                core |-> e.core, c |-> NewContext(<<>>), out |-> FALSE,
                skip |-> FALSE]
     \/ \E n \in 1..MaxTokens :
          \E toks \in SeqsOf(Tokens, n), c \in FnContexts :
            fn = [op |-> "evaluate", at |-> "start",
                  cond |-> TemplateText(toks), c |-> c, expr |-> <<>>,
                  stack |-> <<>>, ret |-> FALSE]
     \/ \E name \in Names, user, builtin \in {"absent", "json", "bad"} :
          fn = [op |-> "Load", done |-> FALSE, name |-> name, user |-> user,
                builtin |-> builtin, err |-> NoError, read |-> {}]
     \/ fn = [op |-> "StreamParser", p |-> NewStreamParser, lines |-> <<>>,
              wrote |-> <<>>, buf |-> <<>>]
     \/ \E n \in 1..MaxCallers : fn = NewTool(n)

UnchangedRun ==
  UNCHANGED <<bundle, supplied, inputs, mainPc, i, ws, ctx, runRet, pc, ret,
              task, mu, firstErr, results, racedW, racedR, crashed, calls,
              outputs, cmd>>

\* out := c.Resolve(s)
FnResolve ==
  /\ fn.op = "Resolve"
  /\ ~fn.done
  /\ fn' = [fn EXCEPT !.out = Resolve(TemplateText(fn.segs), fn.c),
                      !.done = TRUE]
  /\ UnchangedRun

\* out := EvaluateCondition(condition, c)
FnEvaluate ==
  /\ fn.op = "EvaluateCondition"
  /\ ~fn.done
  /\ fn' = [fn EXCEPT
              !.out = EvaluateCondition(ExprText(fn.atoms, fn.conns), fn.c),
              !.done = TRUE]
  /\ UnchangedRun

\* out := EvaluateCondition(step.If, ctx), and Run's test on a step with
\* that condition: `step.If != "" && !EvaluateCondition(step.If, ctx)`.
FnCondition ==
  /\ fn.op = "Condition"
  /\ ~fn.done
  /\ fn' = [fn EXCEPT !.out = EvaluateCondition(fn.text, fn.c),
                      !.skip = SkipTest([If |-> fn.text], fn.c),
                      !.done = TRUE]
  /\ UnchangedRun

\* EvaluateCondition, up to its call of evaluate: the empty condition is
\* true, any other is resolved.
EvaluateStart ==
  /\ fn.op = "evaluate" /\ fn.at = "start"
  /\ fn' = IF fn.cond = <<>>
           THEN [fn EXCEPT !.at = "done", !.ret = TRUE]
           ELSE [fn EXCEPT !.at = "call", !.expr = Resolve(fn.cond, fn.c)]
  /\ UnchangedRun

\* One call of evaluate(expr), up to its first recursive call or, without a
\* connective, its return.  A frame of the stack is a call waiting for its
\* left operand: its connective, the right part it has yet to evaluate, and
\* the length of the string it was given.
EvalCall ==
  /\ fn.op = "evaluate" /\ fn.at = "call"
  /\ LET e   == TrimSpace(fn.expr)
         or  == IndexOf(e, W_OR)
         and == IndexOf(e, W_AND)
         sp  == IF or # 0 THEN SplitAt(e, or, 4) ELSE SplitAt(e, and, 5)
     IN  fn' = IF or # 0 \/ and # 0
               THEN [fn EXCEPT
                       !.expr = sp.left,
                       !.stack = Append(@, [conn |-> IF or # 0 THEN W_OR ELSE W_AND,
                                            rest |-> sp.right,
                                            len |-> Len(fn.expr)])]
               ELSE [fn EXCEPT !.at = "return", !.expr = <<>>,
                               !.ret = evaluate(e)]
  /\ UnchangedRun

\* A call of evaluate returns to the call that waits for it, which returns
\* at once (true || _, false && _) or goes on to evaluate its right part
\* and return that; the outermost returns from EvaluateCondition.
EvalReturn ==
  /\ fn.op = "evaluate" /\ fn.at = "return"
  /\ LET f == fn.stack[Len(fn.stack)]
         popped == SubSeq(fn.stack, 1, Len(fn.stack) - 1)
     IN  fn' = IF fn.stack = <<>> THEN [fn EXCEPT !.at = "done"]
               ELSE IF (f.conn = W_OR) = fn.ret
               THEN [fn EXCEPT !.stack = popped]
               ELSE [fn EXCEPT !.stack = popped, !.at = "call",
                               !.expr = f.rest]
  /\ UnchangedRun

\* _, err := Load(name)
FnLoad ==
  /\ fn.op = "Load"
  /\ ~fn.done
  /\ LET r == Load(fn.name, fn.user, fn.builtin)
     IN  fn' = [fn EXCEPT !.err = r.err, !.read = r.read, !.done = TRUE]
  /\ UnchangedRun

\* p.ProcessLine(line) on one more line: lines are the lines fed so far,
\* wrote what this call wrote, buf all that was written.
FnProcessLine ==
  /\ fn.op = "StreamParser"
  /\ Len(fn.lines) < MaxLines
  /\ \E line \in Lines :
       LET r == ProcessLine(fn.p, line)
       IN  fn' = [fn EXCEPT !.p = r.p, !.lines = Append(@, line),
                            !.wrote = r.out, !.buf = @ \o r.out]
  /\ UnchangedRun

\* t.checkOnce.Do(f), fast path: the atomic load of the flag.
OnceDo(g) ==
  /\ fn.op = "IsClaudeMax"
  /\ g \in DOMAIN fn.at /\ fn.at[g] = "Do"
  /\ fn' = [fn EXCEPT !.at[g] = IF fn.done THEN "return" ELSE "Lock"]
  /\ UnchangedRun

\* Do's slow path: lock, and test the flag again.
OnceLock(g) ==
  /\ fn.op = "IsClaudeMax"
  /\ g \in DOMAIN fn.at /\ fn.at[g] = "Lock"
  /\ MutexFree(fn.m)
  /\ fn' = IF fn.done THEN [fn EXCEPT !.at[g] = "return"]
           ELSE [fn EXCEPT !.m = g, !.at[g] = "f"]
  /\ UnchangedRun

\* f: status := tracking.GetClaudeStatus(), which finds a subscription or
\* does not; the cached fields are written next.
CheckStatus(g) ==
  /\ fn.op = "IsClaudeMax"
  /\ g \in DOMAIN fn.at /\ fn.at[g] = "f"
  /\ \E max \in BOOLEAN :
       fn' = [fn EXCEPT !.checks = @ + 1,
                        !.at[g] = IF max THEN "store" ELSE "unlock"]
  /\ UnchangedRun

\* f's writes of t.isClaudeMax and t.cachedStatus.
StoreStatus(g) ==
  /\ fn.op = "IsClaudeMax"
  /\ g \in DOMAIN fn.at /\ fn.at[g] = "store"
  /\ fn' = [fn EXCEPT !.isClaudeMax = TRUE, !.at[g] = "unlock"]
  /\ UnchangedRun

\* Do's deferred store of the flag and unlock.
OnceDone(g) ==
  /\ fn.op = "IsClaudeMax"
  /\ g \in DOMAIN fn.at /\ fn.at[g] = "unlock"
  /\ fn' = [fn EXCEPT !.done = TRUE, !.at[g] = "return",
                      !.m = IF @ = g THEN 0 ELSE @]
  /\ UnchangedRun

\* return t.isClaudeMax: a read while another goroutine is about to write
\* the field is a data race.
ReturnMax(g) ==
  /\ fn.op = "IsClaudeMax"
  /\ g \in DOMAIN fn.at /\ fn.at[g] = "return"
  /\ fn' = [fn EXCEPT !.got[g] = fn.isClaudeMax, !.at[g] = "returned",
                      !.raced = @ \/ \E h \in DOMAIN fn.at : fn.at[h] = "store"]
  /\ UnchangedRun

NextFn ==
  \/ FnResolve
  \/ FnEvaluate
  \/ FnCondition
  \/ EvaluateStart
  \/ EvalCall
  \/ EvalReturn
  \/ FnLoad
  \/ FnProcessLine
  \/ \E g \in 1..MaxCallers : OnceDo(g)
  \/ \E g \in 1..MaxCallers : OnceLock(g)
  \/ \E g \in 1..MaxCallers : CheckStatus(g)
  \/ \E g \in 1..MaxCallers : StoreStatus(g)
  \/ \E g \in 1..MaxCallers : OnceDone(g)
  \/ \E g \in 1..MaxCallers : ReturnMax(g)

SpecFn == InitFn /\ [][NextFn]_vars

(***************************************************************************)
(* LiveDisplay: Stop and the animation loop                                *)
(***************************************************************************)

\* Goroutines that call Stop, and calls of Stop in all.
MaxStoppers == 2
MaxStopCalls == 3

\* len(spinnerFrames)
SpinnerFrames == 10

\* The display after NewLiveDisplay and Start: no Stop under way, stopOnce
\* unused, done open, the animation loop at its select, mu free (0; 1 is the
\* loop, 2 a caller of one of the display's methods).
Started ==
  [op |-> "Stop", at |-> [g \in 1..MaxStoppers |-> "idle"], calls |-> 0,
   returned |-> 0, once |-> [done |-> FALSE, m |-> 0], closed |-> FALSE,
   panicked |-> FALSE, loop |-> "select", mu |-> 0, spinnerFrame |-> 0]

\* A Stop without stopOnce: close(d.done) at every call.
StopNoOnce(g) ==
  /\ fn.op = "Stop" /\ ~fn.panicked
  /\ fn.at[g] = "idle" /\ fn.calls < MaxStopCalls
  /\ fn' = [fn EXCEPT !.at[g] = "f", !.calls = @ + 1]
  /\ UnchangedRun

\* d.stopOnce.Do(f), fast path: the atomic load of the flag.
StopDo(g) ==
  /\ fn.op = "Stop" /\ ~fn.panicked
  /\ fn.at[g] = "idle" /\ fn.calls < MaxStopCalls
  /\ fn' = IF fn.once.done
           THEN [fn EXCEPT !.calls = @ + 1, !.returned = @ + 1]
           ELSE [fn EXCEPT !.calls = @ + 1, !.at[g] = "Lock"]
  /\ UnchangedRun

\* Do's slow path: lock the Once, and test the flag again.
StopLock(g) ==
  /\ fn.op = "Stop" /\ ~fn.panicked
  /\ fn.at[g] = "Lock" /\ fn.once.m = 0
  /\ fn' = IF fn.once.done
           THEN [fn EXCEPT !.at[g] = "idle", !.returned = @ + 1]
           ELSE [fn EXCEPT !.once.m = g, !.at[g] = "f"]
  /\ UnchangedRun

\* f: close(d.done), which panics on a closed channel, and the cursor is
\* shown again.
StopClose(g) ==
  /\ fn.op = "Stop" /\ ~fn.panicked
  /\ fn.at[g] = "f"
  /\ fn' = IF fn.closed THEN [fn EXCEPT !.panicked = TRUE]
           ELSE [fn EXCEPT !.closed = TRUE, !.at[g] = "unlock"]
  /\ UnchangedRun

\* Do's deferred store of the flag and unlock; Stop returns.
StopUnlock(g) ==
  /\ fn.op = "Stop" /\ ~fn.panicked
  /\ fn.at[g] = "unlock"
  /\ fn' = [fn EXCEPT !.once = [done |-> TRUE, m |-> 0], !.at[g] = "idle",
                      !.returned = @ + 1]
  /\ UnchangedRun

\* animationLoop, line 131: the select takes a tick.
LoopTick ==
  /\ fn.op = "Stop" /\ ~fn.panicked
  /\ fn.loop = "select"
  /\ fn' = [fn EXCEPT !.loop = "lock"]
  /\ UnchangedRun

\* Lines 132-134: d.mu.Lock(), the next spinner frame, render.
LoopLock ==
  /\ fn.op = "Stop" /\ ~fn.panicked
  /\ fn.loop = "lock" /\ fn.mu = 0
  /\ fn' = [fn EXCEPT !.mu = 1, !.loop = "render",
                      !.spinnerFrame = (@ + 1) % SpinnerFrames]
  /\ UnchangedRun

\* Line 135: d.mu.Unlock(), and back to the select.
LoopUnlock ==
  /\ fn.op = "Stop" /\ ~fn.panicked
  /\ fn.loop = "render"
  /\ fn' = [fn EXCEPT !.mu = 0, !.loop = "select"]
  /\ UnchangedRun

\* Lines 129-130: the select takes the closed done channel; the loop
\* returns.
LoopExit ==
  /\ fn.op = "Stop" /\ ~fn.panicked
  /\ fn.loop = "select" /\ fn.closed
  /\ fn' = [fn EXCEPT !.loop = "exited"]
  /\ UnchangedRun

\* A method of the display (AddOutput, SetStepRunning, ...) locks d.mu ...
MethodLock ==
  /\ fn.op = "Stop" /\ ~fn.panicked
  /\ fn.mu = 0
  /\ fn' = [fn EXCEPT !.mu = 2]
  /\ UnchangedRun

\* ... and returns: the deferred d.mu.Unlock().
MethodUnlock ==
  /\ fn.op = "Stop" /\ ~fn.panicked
  /\ fn.mu = 2
  /\ fn' = [fn EXCEPT !.mu = 0]
  /\ UnchangedRun

(***************************************************************************)
(* LiveDisplay: the live output and the states of the steps                *)
(***************************************************************************)

\* Non-blank lines added to one display.
MaxAdded == 52

\* AddOutput, line 334: the lines kept.
LiveOutputCap == 50

\* The n-th non-blank line a tool prints: padded, coloured, plain, or
\* nothing but a colour reset.  "ESC" stands for the character \033.
RawLine(n) ==
  CASE n % 4 = 1 -> <<" ">> \o Itoa(n) \o <<"\r", "\n">>
    [] n % 4 = 2 -> <<"ESC", "[", "3", "1", "m">> \o Itoa(n)
                      \o <<"ESC", "[", "0", "m">>
    [] n % 4 = 3 -> Itoa(n)
    [] OTHER -> <<"ESC", "[", "0", "m">>

RECURSIVE stripAnsi(_, _)
\* stripAnsi(s), with the loop's inEscape flag: an escape runs from \033
\* to the first letter after it.
stripAnsi(s, inEscape) ==
  LET letters ==
        {"a", "b", "c", "d", "e", "f", "g", "h", "i", "j", "k", "l", "m",
         "n", "o", "p", "q", "r", "s", "t", "u", "v", "w", "x", "y", "z",
         "A", "B", "C", "D", "E", "F", "G", "H", "I", "J", "K", "L", "M",
         "N", "O", "P", "Q", "R", "S", "T", "U", "V", "W", "X", "Y", "Z"}
  IN IF s = <<>> THEN <<>>
     ELSE IF Head(s) = "ESC" THEN stripAnsi(Tail(s), TRUE)
     ELSE IF inEscape THEN stripAnsi(Tail(s), Head(s) \notin letters)
     ELSE <<Head(s)>> \o stripAnsi(Tail(s), FALSE)

\* The first LiveOutputCap lines, not the last.
Oldest(lines) ==
  IF Len(lines) > LiveOutputCap THEN SubSeq(lines, 1, LiveOutputCap)
  ELSE lines

\* AddOutput, lines 333-336: only the recent lines are kept.
Recent(lines) ==
  IF Len(lines) > LiveOutputCap
  THEN From(lines, Len(lines) - LiveOutputCap + 1)
  ELSE lines

\* NewLiveDisplay for a bundle of these steps: every step pending, no
\* current step, no output.  Of a LiveStep only State is kept (Cost,
\* Duration, Tokens and StartTime, and the display's totals, are left out);
\* added counts the non-blank lines given to AddOutput, mark is its value
\* at the last SetStepRunning that took effect.
NewLiveDisplay(list) ==
  [op |-> "Output", steps |-> [k \in 1..Len(list) |-> "StepPending"],
   currentStep |-> 0 - 1, liveOutput |-> <<>>, added |-> 0, mark |-> 0]

AddOutput(line) ==
  /\ fn.op = "Output"
  /\ LET trimmed == TrimSpace(line)
     IN IF trimmed = <<>> THEN fn' = fn
        ELSE /\ fn.added < MaxAdded
             /\ fn' = [fn EXCEPT
                         !.liveOutput =
                           Recent(Append(@, stripAnsi(trimmed, FALSE))),
                         !.added = @ + 1]
  /\ UnchangedRun

SetStepRunning(stepIndex) ==
  /\ fn.op = "Output"
  /\ fn' = IF stepIndex >= 0 /\ stepIndex < Len(fn.steps)
           THEN [fn EXCEPT !.steps[stepIndex + 1] = "StepRunning",
                           !.currentStep = stepIndex,
                           !.liveOutput = <<>>,
                           !.mark = fn.added]
           ELSE fn
  /\ UnchangedRun

SetStepComplete(stepIndex, success) ==
  /\ fn.op = "Output"
  /\ fn' = IF stepIndex >= 0 /\ stepIndex < Len(fn.steps)
           THEN [fn EXCEPT !.steps[stepIndex + 1] =
                             IF success THEN "StepSuccess" ELSE "StepFailure"]
           ELSE fn
  /\ UnchangedRun

SetStepSkipped(stepIndex) ==
  /\ fn.op = "Output"
  /\ fn' = IF stepIndex >= 0 /\ stepIndex < Len(fn.steps)
           THEN [fn EXCEPT !.steps[stepIndex + 1] = "StepSkipped"]
           ELSE fn
  /\ UnchangedRun

InitLive == RunIdle /\ fn \in {Started, NewLiveDisplay(<<1, 2>>)}

NextLive ==
  \/ \E g \in 1..MaxStoppers : StopDo(g)
  \/ \E g \in 1..MaxStoppers : StopLock(g)
  \/ \E g \in 1..MaxStoppers : StopClose(g)
  \/ \E g \in 1..MaxStoppers : StopUnlock(g)
  \/ LoopTick
  \/ LoopLock
  \/ LoopUnlock
  \/ LoopExit
  \/ MethodLock
  \/ MethodUnlock
  \/ /\ fn.op = "Output"
     /\ \E line \in {<<" ", "\t">>, RawLine(fn.added + 1)} : AddOutput(line)
  \/ \E stepIndex \in (0 - 1)..2 : SetStepRunning(stepIndex)
  \/ \E stepIndex \in (0 - 1)..2, success \in BOOLEAN :
       SetStepComplete(stepIndex, success)
  \/ \E stepIndex \in (0 - 1)..2 : SetStepSkipped(stepIndex)

\* A goroutine that can run does: each step of a Stop, and the unlock of
\* the loop and of a method.  The select takes a ready case at random and
\* a waiting Lock is handed the mutex after at most a millisecond of
\* starvation, so the loop's exit and its Lock are not passed over for ever.
SpecLive ==
  /\ InitLive /\ [][NextLive]_vars
  /\ \A g \in 1..MaxStoppers :
       WF_vars(StopLock(g)) /\ WF_vars(StopClose(g)) /\ WF_vars(StopUnlock(g))
  /\ WF_vars(LoopUnlock) /\ WF_vars(MethodUnlock)
  /\ SF_vars(LoopLock) /\ SF_vars(LoopExit)

(***************************************************************************)
(* Properties of Orchestrator.Run                                          *)
(***************************************************************************)

NSteps == Len(bundle.Steps)
TopStep(k) == StepPool[bundle.Steps[k]]
Recorded(name) == Has(ctx.StepResults, name)

\* No step after the k-th has been dispatched or recorded.
NothingAfter(k) ==
  \A j \in (k + 1)..NSteps : \A s \in Tree[bundle.Steps[j]] :
    pc[s] = "idle" /\ ~Recorded(StepPool[s].Name)

\* C1: whenever a top-level step that is no conditional has been dispatched
\* and its recorded envelope has status Failure, Run has returned at that
\* step with that envelope and a non-nil error, and no later step has been
\* dispatched or recorded.
C1_HaltsAtFirstFailure ==
  \A k \in 1..NSteps :
    LET id == bundle.Steps[k]
        st == StepPool[id]
    IN  (/\ st.Then = 0
         /\ pc[id] = "done"
         /\ Recorded(st.Name)
         /\ ctx.StepResults[st.Name].Status = StatusFailure)
        => /\ mainPc = "returned"
           /\ i = k
           /\ runRet.env = ctx.StepResults[st.Name]
           /\ runRet.err # NilErr
           /\ NothingAfter(k)

\* A three-step run whose first step succeeded and whose second step's
\* Failure envelope made Run return.
C1_Witness ==
  /\ NSteps = 3
  /\ mainPc = "returned"
  /\ i = 2
  /\ TopStep(2).Then = 0
  /\ Recorded(TopStep(1).Name)
  /\ ctx.StepResults[TopStep(1).Name].Status = StatusSuccess
  /\ Recorded(TopStep(2).Name)
  /\ runRet.env = ctx.StepResults[TopStep(2).Name]
  /\ runRet.env.Status = StatusFailure
  /\ runRet.err = StepFailedErr(TopStep(2).Name)
  /\ pc[bundle.Steps[3]] = "idle"

\* C2: once Run is past a conditional step that has both then and else,
\* exactly one of the two has been dispatched, then if the `if` expression
\* is true and else if it is false, and the dispatched sub-step's envelope
\* is recorded under the parent's name.
C2_ExactlyOneBranch ==
  \A k \in 1..NSteps :
    LET st == TopStep(k)
        t  == EvaluateCondition(st.If, ctx)
    IN  (st.Then # 0 /\ st.Else # 0 /\ i > k)
        => /\ (pc[st.Then] # "idle") = t
           /\ (pc[st.Else] # "idle") = ~t
           /\ Recorded(st.Name)
           /\ ctx.StepResults[st.Name] = ret[IF t THEN st.Then ELSE st.Else].env

\* C3: whenever the sub-step run for a conditional step has returned a
\* Failure envelope, Run has returned at that step with a Failure envelope
\* and a non-nil error, the envelope is recorded under the parent's name, and
\* no later step has been dispatched.
C3_BranchFailureHalts ==
  \A k \in 1..NSteps :
    LET st == TopStep(k)
    IN  \A sub \in {st.Then, st.Else} \ {0} :
          (pc[sub] = "done" /\ ret[sub].env.Status = StatusFailure)
          => /\ Recorded(st.Name)
             /\ ctx.StepResults[st.Name] = ret[sub].env
             /\ mainPc = "returned"
             /\ i = k
             /\ runRet.env.Status = StatusFailure
             /\ runRet.err # NilErr
             /\ NothingAfter(k)

\* The step Run's loop is at has a non-empty `if` that evaluates false.
AtFalseIf ==
  /\ ~crashed /\ mainPc = "loop" /\ i >= 1 /\ i <= NSteps
  /\ TopStep(i).If # <<>>
  /\ ~EvaluateCondition(TopStep(i).If, ctx)

\* What Run does at such a step: nothing is dispatched, one Skipped envelope
\* is recorded under the step's name, the loop goes to the next step.
SkipsIt ==
  AtFalseIf =>
    /\ pc' = pc
    /\ ctx' = SetResult(ctx, TopStep(i).Name, EnvLit(StatusSkipped))
    /\ calls' = Called(calls, TopStep(i).Name)
    /\ i' = i + 1
    /\ mainPc' = "loop"
    /\ runRet' = runRet

\* A step recorded as Skipped was never dispatched, nor was any step under
\* it; it was recorded once; Run did not return at it.
SkippedStaysOut ==
  \A k \in 1..NSteps :
    LET st == TopStep(k)
    IN  (Recorded(st.Name) /\ ctx.StepResults[st.Name].Status = StatusSkipped)
        => /\ \A s \in Tree[bundle.Steps[k]] : pc[s] = "idle"
           /\ calls[st.Name] = 1
           /\ i > k

\* C4: a step whose non-empty `if` evaluates false is not dispatched, gets
\* exactly one envelope, Skipped, under its own name, and Run continues with
\* the next step; a Skipped step never makes Run return.
C4_FalseIfSkips == [][SkipsIt]_vars /\ []SkippedStaysOut

\* A run that skipped a step and went on to return Success.
C4_Witness ==
  /\ mainPc = "returned"
  /\ runRet.env.Status = StatusSuccess
  /\ \E k \in 1..NSteps :
       /\ Recorded(TopStep(k).Name)
       /\ ctx.StepResults[TopStep(k).Name].Status = StatusSkipped
       /\ calls[TopStep(k).Name] = 1

(***************************************************************************)
(* Properties of ParallelExecutor.Execute                                  *)
(***************************************************************************)

Returned(p) == pc[p] \in {"returned", "done"}
ChildName(c) == StepPool[c].Name

\* The Context holds the envelope the dispatch of c returned, under c's name.
Holds(c) == Recorded(ChildName(c)) /\ ctx.StepResults[ChildName(c)] = ret[c].env

\* C5: once a Parallel call has returned, its envelope's status is Success
\* if every sub-step's envelope is Success and Partial otherwise, and the
\* Context holds each sub-step's own envelope under the sub-step's name.
C5_AggregateAndEntries ==
  \A p \in ParallelIds :
    Returned(p) =>
      /\ ret[p].env.Status =
           IF \A c \in Children(p) : ret[c].env.Status = StatusSuccess
           THEN StatusSuccess ELSE StatusPartial
      /\ \A c \in Children(p) : Holds(c)

\* C6: a Parallel call returns only after every sub-step's dispatch has
\* returned and SetResult was called for it; Run's loop never looks at a
\* step while a branch is running; and the step after a Parallel step finds
\* every branch's envelope in the Context.
C6_Barrier ==
  /\ \A p \in ParallelIds :
       Returned(p) => \A c \in Children(p) :
                         pc[c] = "done" /\ Has(calls, ChildName(c))
  /\ mainPc = "loop" => \A s \in Ids : pc[s] \in {"idle", "done"}
  /\ \A k \in 1..NSteps :
       (k < i /\ bundle.Steps[k] \in ParallelIds /\ pc[bundle.Steps[k]] = "done")
       => \A c \in Children(bundle.Steps[k]) : Holds(c)

\* The hard errors the sub-steps of p returned.
BranchErrs(p) == {ret[c].err : c \in {x \in Children(p) : pc[x] = "done"}} \ {NilErr}

\* firstErr is set by the first branch that reports an error and kept until
\* the call returns it.
FirstErrKept ==
  \A p \in ParallelIds :
    pc[p] = "waiting" =>
      /\ firstErr[p] # NilErr =>
           IF pc'[p] = "waiting" THEN firstErr'[p] = firstErr[p]
           ELSE ret'[p].err = firstErr[p]
      /\ (firstErr[p] = NilErr /\ firstErr'[p] # NilErr) =>
           \E c \in Children(p) :
             pc[c] = "returned" /\ pc'[c] = "writing" /\ firstErr'[p] = ret[c].err

\* When a Parallel call has returned and a sub-step returned a hard error,
\* every sub-step has run to completion and has its envelope in the Context,
\* and the call's error is one a sub-step returned.
SiblingsComplete ==
  \A p \in ParallelIds :
    (Returned(p) /\ BranchErrs(p) # {}) =>
      /\ \A c \in Children(p) : pc[c] = "done" /\ Holds(c)
      /\ ret[p].err \in BranchErrs(p)

\* C7: when sub-steps of a Parallel step return a hard error, every other
\* sub-step still runs to completion and has its envelope recorded in the
\* Context, and the Parallel step returns the error of the first branch to
\* report one.
C7_FirstErrorSiblingsRun == [][FirstErrKept]_vars /\ []SiblingsComplete

\* C8: no two SetResult writes to the Context execute at the same time.
C8_WritesSerialized == Cardinality(Writers) <= 1

\* C9: while a branch of a Parallel step is inside SetResult, no sibling
\* branch is inside Context.Resolve.
C9_NoReadDuringWrite ==
  \A c \in Writers : \A r \in Readers :
    ~(IsBranch(c) /\ IsBranch(r) /\ ParentOf(c) = ParentOf(r))

(***************************************************************************)
(* Required inputs                                                         *)
(***************************************************************************)

\* A declared required input that the caller did not supply ...
Absent(k) ==
  bundle.Inputs[k].Required /\ ~Has(supplied, bundle.Inputs[k].Name)

\* ... and one of them has no default.
MissingRequired ==
  \E k \in 1..Len(bundle.Inputs) : Absent(k) /\ bundle.Inputs[k].Default = <<>>

\* C10: after validation, if a required input was absent and had no default,
\* Run has returned a Failure envelope with code MISSING_INPUT, no workspace
\* exists and no step was dispatched or recorded; otherwise every absent
\* required input has its default and Run went on to make the workspace.
C10_RequiredInputs ==
  mainPc # "validate" =>
    IF MissingRequired
    THEN /\ mainPc = "returned"
         /\ runRet.env.Status = StatusFailure
         /\ runRet.env.ErrCode = <<"MISSING_INPUT">>
         /\ ~ws.made
         /\ \A s \in Ids : pc[s] = "idle"
         /\ DOMAIN ctx.StepResults = {}
         /\ DOMAIN calls = {}
    ELSE /\ \A k \in 1..Len(bundle.Inputs) :
              Absent(k) =>
                /\ Has(inputs, bundle.Inputs[k].Name)
                /\ inputs[bundle.Inputs[k].Name] = bundle.Inputs[k].Default
                /\ ws.made => ctx.Inputs[bundle.Inputs[k].Name] = bundle.Inputs[k].Default
         /\ mainPc = "returned" /\ ~ws.made => runRet.err = WorkspaceErr

\* Run returned MISSING_INPUT for y after it had given x its default.
C10_Witness ==
  /\ MissingRequired
  /\ mainPc = "returned"
  /\ runRet.env.ErrCode = <<"MISSING_INPUT">>
  /\ Has(inputs, <<"x">>) /\ ~Has(supplied, <<"x">>)

(***************************************************************************)
(* What Run returns                                                        *)
(***************************************************************************)

RunReturned == mainPc = "returned"

\* C11: whenever the envelope Run returned has status Failure, the error Run
\* returned with it is not nil.
C11_FailureHasError ==
  (RunReturned /\ runRet.env.Status = StatusFailure) => runRet.err # NilErr

\* The envelopes a caller of Run gets hold of: Run returns one envelope and
\* an error.
HandedBack == {runRet.env}

\* C12: when Run returned because a step failed, the caller gets, with the
\* error, every envelope the Context recorded before the halt.
C12_ContextHandedBack ==
  (RunReturned /\ runRet.err = StepFailedErr(runRet.err.step)
     /\ runRet.err.kind = "step_failed")
  => \A n \in DOMAIN ctx.StepResults : ctx.StepResults[n] \in HandedBack

\* Run went through its step loop to the end, or returned at a failed step.
RanSteps ==
  /\ RunReturned /\ ws.made
  /\ runRet.err = NilErr \/ runRet.err.kind = "step_failed"

\* C13: whether Run completed all steps or halted on a step Failure, the
\* envelope it returned carries the run's status, the step count, the run's
\* elapsed duration and the job id.
C13_SummaryEnvelope ==
  RanSteps =>
    /\ runRet.env.Status \in {StatusSuccess, StatusFailure}
    /\ ~runRet.env.Result.isNil
    /\ Has(runRet.env.Result.kv, W_steps)
    /\ runRet.env.Result.kv[W_steps] = IntV(NSteps)
    /\ Has(runRet.env.Result.kv, W_job_id)
    /\ runRet.env.Result.kv[W_job_id] = StrV(ws.JobID)
    /\ runRet.env.Duration = DurRun

\* What the dispatch made for the step Run returned at gave back.
HaltCause ==
  LET st == TopStep(i)
      ds == IF st.Then = 0 THEN {bundle.Steps[i]}
            ELSE {sub \in {st.Then, st.Else} \ {0} : pc[sub] = "done"}
  IN  \E d \in ds :
        ret[d].err # NilErr \/ ret[d].env.Status = StatusFailure

\* C14: once the workspace exists Run returns before the end of the step
\* list only at a step whose dispatch gave a hard error or a Failure
\* envelope; otherwise it returns at the end, with status Success, a nil
\* error, `steps` the number of top-level steps, and the Context holds an
\* envelope for every top-level step name.
C14_CompletesWithSuccess ==
  (RunReturned /\ ws.made) =>
    IF i <= NSteps
    THEN HaltCause /\ runRet.err # NilErr
    ELSE /\ runRet.env.Status = StatusSuccess
         /\ runRet.err = NilErr
         /\ runRet.env.Result.kv[W_steps] = IntV(NSteps)
         /\ \A k \in 1..NSteps : Recorded(TopStep(k).Name)

\* A three-step run with a skipped step and a Partial step that returned
\* Success at the end of the list.
C14_Witness ==
  /\ RunReturned /\ NSteps = 3 /\ i = 4
  /\ runRet.env.Status = StatusSuccess
  /\ runRet.env.Result.kv[W_steps] = IntV(3)
  /\ \E k \in 1..3 : /\ Recorded(TopStep(k).Name)
                     /\ ctx.StepResults[TopStep(k).Name].Status = StatusSkipped
  /\ \E k \in 1..3 : /\ Recorded(TopStep(k).Name)
                     /\ ctx.StepResults[TopStep(k).Name].Status = StatusPartial

\* C15: whenever Run returns status Success, no envelope recorded in the
\* Context has status Failure.
C15_SuccessMeansNoFailure ==
  (RunReturned /\ runRet.env.Status = StatusSuccess)
  => \A n \in DOMAIN ctx.StepResults : ctx.StepResults[n].Status # StatusFailure

(***************************************************************************)
(* The Context during a run                                                *)
(***************************************************************************)

\* One entry of StepResults was assigned and nothing else of the Context
\* changed.
OneEntrySet ==
  /\ ctx'.Inputs = ctx.Inputs
  /\ ctx'.Variables = ctx.Variables
  /\ \E n \in DOMAIN ctx'.StepResults :
       /\ DOMAIN ctx'.StepResults = DOMAIN ctx.StepResults \cup {n}
       /\ \A m \in DOMAIN ctx.StepResults \ {n} :
            ctx'.StepResults[m] = ctx.StepResults[m]
       /\ Has(calls', n)
       /\ calls'[n] = (IF Has(calls, n) THEN calls[n] ELSE 0) + 1

\* A step of the run leaves the Context alone unless it is NewContext or a
\* SetResult call; the return of a tool step's ctx.Resolve leaves it alone
\* and yields the template resolved against it.
ContextFrame ==
  /\ ctx' # ctx => (mainPc = "workspace" \/ OneEntrySet)
  /\ \A s \in Ids :
       (pc[s] = "resolving" /\ pc'[s] = "running")
       => ctx' = ctx /\ task'[s] = Resolve(StepPool[s].Task, ctx')

C18_EmptyIfRuns ==
  /\ EvaluateCondition(<<>>, ctx)
  /\ \A k \in 1..NSteps :
       LET st == TopStep(k)
       IN  st.If = <<>> =>
             /\ ~(Recorded(st.Name) /\ ctx.StepResults[st.Name].Status = StatusSkipped)
             /\ k < i => pc[IF st.Then = 0 THEN bundle.Steps[k] ELSE st.Then] # "idle"

\* Run is past a conditional step without an `if`, whose then sub-step ran.
C18_Witness ==
  \E k \in 1..NSteps :
    /\ TopStep(k).If = <<>> /\ TopStep(k).Then # 0
    /\ k < i
    /\ pc[TopStep(k).Then] = "done"
    /\ Recorded(TopStep(k).Name)

(***************************************************************************)
(* ToolExecutor.Execute                                                    *)
(***************************************************************************)

\* The steps the dispatcher hands to the ToolExecutor.
ToolIds == {s \in Ids : DispatchKind(StepPool[s]) = "tool"}

Unregistered(s) ==
  DispatchKind(StepPool[s]) = "tool" /\ StepPool[s].Tool \notin ToolRegistry

TopNamesBefore(k) == {TopStep(j).Name : j \in 1..(k - 1)}
SubNamesBefore(k) ==
  {StepPool[s].Name :
     s \in UNION {Under(bundle.Steps[j]) :
                    j \in {h \in 1..(k - 1) : TopStep(h).Parallel # <<>>}}}

\* Run is in its loop at a step.
InLoop == mainPc \in {"loop", "dispatch", "cond"} /\ i \in 1..NSteps

\* The `if` expression of the current step is about to be evaluated, or the
\* task template of the current step (of its branch, for a conditional
\* step) is being resolved.
ResolvingCur ==
  /\ InLoop /\ ~crashed
  /\ \/ mainPc = "loop"
     \/ /\ Cur.Parallel = <<>>
        /\ \E s \in Tree[CurId] : pc[s] \in {"called", "resolving"}

\* No step is dispatched a second time.
NoRedispatch ==
  \A s \in Ids : (pc[s] # "called" /\ pc'[s] = "called") => pc[s] = "idle"

\* Steps are taken in bundle order, one at a time; the Context holds, of
\* the top-level steps, exactly those before the current one, and when the
\* current step's expression or template is resolved it holds nothing else
\* but Parallel sub-steps of earlier steps; without a Parallel step there
\* is never more than one step in progress, with Run waiting for it.
InBundleOrder ==
  /\ \A k \in 1..NSteps : \A s \in Tree[bundle.Steps[k]] :
       /\ k > i => pc[s] = "idle"
       /\ k < i => pc[s] \in {"idle", "done"}
  /\ InLoop =>
       {TopStep(k).Name : k \in 1..NSteps} \cap DOMAIN ctx.StepResults
         = TopNamesBefore(i)
  /\ ResolvingCur =>
       DOMAIN ctx.StepResults \subseteq TopNamesBefore(i) \cup SubNamesBefore(i)
  /\ (\A k \in 1..NSteps : TopStep(k).Parallel = <<>>) =>
       /\ Cardinality({s \in Ids : pc[s] \notin {"idle", "done"}}) <= 1
       /\ (\E s \in Ids : pc[s] \notin {"idle", "done"})
            => mainPc \in {"dispatch", "cond"}
       /\ ~crashed
       /\ \A s \in Ids : ~racedW[s] /\ ~racedR[s]

\* C25: top-level steps are dispatched in bundle order, one at a time and
\* each at most once; when a step's condition or task template is resolved
\* the Context holds the envelopes of exactly the top-level steps before it
\* (and Parallel sub-steps of those) and none of it or of a later step;
\* without Parallel steps nothing runs concurrently.
C25_InOrderOnce == [][NoRedispatch]_vars /\ []InBundleOrder

\* The third step's task template is being resolved after a tool step and
\* a Parallel step: the Context holds both, and sub-steps of the second.
C25_Witness ==
  /\ NSteps = 3 /\ i = 3 /\ mainPc = "dispatch"
  /\ pc[CurId] = "resolving"
  /\ TopStep(2).Parallel # <<>>
  /\ TopNamesBefore(3) \subseteq DOMAIN ctx.StepResults
  /\ SubNamesBefore(3) \cap DOMAIN ctx.StepResults # {}

\* Run is past the k-th top-level step: the step was skipped, or its
\* dispatch returned, and not with a hard error.
Passed(k) ==
  \/ k < i
  \/ k = i /\ mainPc = "returned" /\ runRet.err.kind # "hard"

\* No name has had two SetResult calls, and every step Run is past has had
\* one.
OncePerName ==
  /\ \A n \in DOMAIN calls : calls[n] = 1
  /\ \A k \in 1..NSteps : Passed(k) => Has(calls, TopStep(k).Name)

\* An entry of StepResults keeps its envelope.
KeepsEntries ==
  \A n \in DOMAIN ctx.StepResults :
    Has(ctx'.StepResults, n) /\ ctx'.StepResults[n] = ctx.StepResults[n]

\* C26: SetResult is called at most once for a step name, and once for
\* every top-level step that was skipped or whose dispatch returned without
\* a hard error; no recorded envelope is overwritten.
C26_OnceNoOverwrite == [][KeepsEntries]_vars /\ []OncePerName

\* Run has returned from its third step, past a tool step, a Parallel step
\* and a step that was skipped, each recorded by one call.
C26_Witness ==
  /\ NSteps = 3 /\ i = 3 /\ mainPc = "returned"
  /\ \A k \in 1..3 : Has(calls, TopStep(k).Name) /\ Recorded(TopStep(k).Name)
  /\ \E k \in 1..3 : TopStep(k).Parallel # <<>>
  /\ \E k \in 1..3 : ctx.StepResults[TopStep(k).Name].Status = StatusSkipped

\* C27: once a Parallel call has returned, the `steps` and `completed`
\* fields of its envelope's result both are the number of sub-steps in the
\* step's parallel list.
C27_AggregateCounts ==
  \A p \in ParallelIds :
    Returned(p) =>
      /\ ret[p].env.Result.kv[W_steps] = IntV(Len(StepPool[p].Parallel))
      /\ ret[p].env.Result.kv[W_completed] = IntV(Len(StepPool[p].Parallel))

\* A Parallel call has returned Partial, one of its two sub-steps having
\* failed: both count as completed.
C27_Witness ==
  \E p \in ParallelIds :
    /\ Returned(p)
    /\ ret[p].env.Status = StatusPartial
    /\ \E c \in Children(p) : ret[c].env.Status = StatusFailure
    /\ ret[p].env.Result.kv[W_completed] = IntV(2)

\* A Failure envelope has an error code, a Skipped envelope has nothing.
WellFormed(env) ==
  /\ env.Status = StatusFailure => env.ErrCode # Empty
  /\ env.Status = StatusSkipped =>
       /\ env.OutputRef = Empty
       /\ env.Result = NilMap
       /\ env.ErrCode = Empty

\* C32: of the envelopes recorded in the Context, returned by a step's
\* executor or returned by Run, every envelope with status Failure carries
\* a non-empty error code, and every envelope with status Skipped carries no
\* output reference, no result and no error.
C32_FailureCodeSkippedBare ==
  /\ \A n \in DOMAIN ctx.StepResults : WellFormed(ctx.StepResults[n])
  /\ \A s \in Ids : Returned(s) => WellFormed(ret[s].env)
  /\ mainPc = "returned" => WellFormed(runRet.env)

\* The Context holds the EXEC_FAILED envelope of a tool step, a branch of a
\* Parallel step, and the Skipped envelope of a later step.
C32_Witness ==
  \E n, m \in DOMAIN ctx.StepResults :
    /\ ctx.StepResults[n].Status = StatusFailure
    /\ ctx.StepResults[n].ErrCode = <<"EXEC_FAILED">>
    /\ ctx.StepResults[m].Status = StatusSkipped

\* The step has more than one shape populated.
ManyShapes(st) ==
  Cardinality({k \in 1..5 :
                 <<st.Then # 0, st.Parallel # <<>>, ~st.Merge.isNil,
                   ~st.Vote.isNil, st.Tool # <<>>>>[k]}) > 1

ShapedIds == {s \in Ids : ManyShapes(StepPool[s])}

\* What each strategy leaves behind: the tool strategy a resolved task, a
\* command or an output file; the parallel strategy sub-steps under way; the
\* merge and vote strategies a MISSING_INPUT envelope exactly when the
\* Context has none of their sources.
AsTool(s) ==
  \/ pc[s] \in {"resolving", "running"}
  \/ task[s] # <<>> \/ cmd[s].ran
  \/ StepPool[s].Name \in outputs
AsParallel(s) == \E c \in Children(s) : pc[c] # "idle"
AsAggregate(s, def) ==
  Returned(s) =>
    /\ ~Has(ret[s].env.Result.kv, W_steps)
    /\ ret[s].env.ErrCode = <<"MISSING_INPUT">> <=>
         \A k \in 1..Len(def.Inputs) : ~Recorded(def.Inputs[k])

\* C33: a step with more than one shape populated is handled by one
\* strategy, the first populated of conditional, parallel, merge, vote and
\* tool, whatever the run's state: with a `then` only its branch is
\* dispatched, the step itself never; else with a parallel list it runs
\* its sub-steps and returns their aggregate; else with a merge it merges,
\* else it votes; and in none of these cases does it run its tool.
C33_OneStrategyByPriority ==
  \A s \in ShapedIds :
    LET st == StepPool[s]
    IN    IF st.Then # 0
          THEN pc[s] = "idle" /\ ~AsParallel(s) /\ ~AsTool(s)
          ELSE IF st.Parallel # <<>>
          THEN /\ ~AsTool(s)
               /\ Returned(s) =>
                    /\ ret[s].env.Status \in {StatusSuccess, StatusPartial}
                    /\ Has(ret[s].env.Result.kv, W_steps)
          ELSE IF ~st.Merge.isNil
          THEN ~AsTool(s) /\ ~AsParallel(s) /\ AsAggregate(s, st.Merge)
          ELSE IF ~st.Vote.isNil
          THEN ~AsTool(s) /\ ~AsParallel(s) /\ AsAggregate(s, st.Vote)
          ELSE TRUE

\* Run is past h, which has every shape populated: its then g ran as a
\* Parallel step, whose branch f merged a and whose branch o found no source
\* to vote on; g's aggregate is recorded under h.
C33_Witness ==
  /\ bundle.Steps = <<1, 15>> /\ mainPc = "loop" /\ i = 3
  /\ pc[16] = "done"
  /\ ret[17].env.Status = StatusSuccess
  /\ ret[18].env.ErrCode = <<"MISSING_INPUT">>
  /\ ctx.StepResults[<<"h">>] = ret[16].env
  /\ ret[16].env.Status = StatusPartial

\* The dispatcher has returned from the merge or vote step Run is at; the
\* Context is as it was during the call.
AggregateBack ==
  /\ mainPc = "dispatch" /\ pc[CurId] = "returned"
  /\ ~Cur.Merge.isNil \/ ~Cur.Vote.isNil

\* The sources of the step that ran and were not skipped.
RanSources ==
  LET def == IF ~Cur.Merge.isNil THEN Cur.Merge ELSE Cur.Vote
  IN  {k \in 1..Len(def.Inputs) :
         /\ Recorded(def.Inputs[k])
         /\ ctx.StepResults[def.Inputs[k]].Status # StatusSkipped}

\* C34: a Merge or Vote step leaves out the sources that were skipped or
\* never ran: with a source left it does not fail for the ones left out,
\* and it fails with MISSING_INPUT exactly when none is left.
C34_SkippedSourcesExcluded ==
  AggregateBack =>
    /\ ret[CurId].env.ErrCode = <<"MISSING_INPUT">> <=> RanSources = {}
    /\ RanSources = {} =>
         ret[CurId].env.Status = StatusFailure /\ ret[CurId].err = NilErr

\* The merge s of a, k and z has succeeded after a ran and k was skipped.
C34_Witness ==
  /\ AggregateBack
  /\ Cur.Name = <<"s">>
  /\ Recorded(<<"a">>)
  /\ Recorded(<<"k">>)
  /\ ctx.StepResults[<<"k">>].Status = StatusSkipped
  /\ ret[CurId].env.Status = StatusSuccess

\* C35: whenever Run returns a non-nil error, the envelope it returns has
\* status Failure; a hard error of a dispatched step never comes back with
\* a Success or Partial envelope.
C35_ErrorMeansFailure ==
  (mainPc = "returned" /\ runRet.err # NilErr) =>
    runRet.env.Status = StatusFailure

\* C37: once validation has passed and the Context is made, every declared
\* input with a non-empty default that the caller did not supply, required
\* or not, is in the Context's Inputs with its default.
C37_DefaultsInContext ==
  ws.made =>
    \A k \in 1..Len(bundle.Inputs) :
      LET in == bundle.Inputs[k]
      IN  (in.Default # <<>> /\ ~Has(supplied, in.Name)) =>
            /\ Has(ctx.Inputs, in.Name)
            /\ ctx.Inputs[in.Name] = in.Default

(***************************************************************************)
(* Properties of Context.Resolve and EvaluateCondition                     *)
(***************************************************************************)

\* What a marker with this path stands for when only the forms
\* inputs.<name>, steps.<name>.output_ref, steps.<name>.status,
\* steps.<name>.result and steps.<name>.result.<key> are recognised: the
\* value found, and the marker's own text in every other case.
Denotes(seg, c) ==
  LET p == seg.path
  IN  IF Len(p) = 2 /\ p[1] = W_inputs /\ Has(c.Inputs, p[2])
      THEN c.Inputs[p[2]]
      ELSE IF Len(p) \in {3, 4} /\ p[1] = W_steps /\ Has(c.StepResults, p[2])
      THEN LET env == c.StepResults[p[2]]
           IN  IF Len(p) = 3 /\ p[3] = W_output_ref THEN env.OutputRef
               ELSE IF Len(p) = 3 /\ p[3] = W_status THEN env.Status
               ELSE IF Len(p) = 3 /\ p[3] = W_result
               THEN MarshalResult(env.Result)
               ELSE IF Len(p) = 4 /\ p[3] = W_result
                       /\ Has(env.Result.kv, p[4])
               THEN SprintV(env.Result.kv[p[4]])
               ELSE seg.text
      ELSE seg.text

\* The template with each marker replaced by what it stands for and every
\* other character copied.
RECURSIVE Expanded(_, _)
Expanded(segs, c) ==
  IF segs = <<>> THEN <<>>
  ELSE (IF Head(segs).kind = "ref" THEN Denotes(Head(segs), c)
        ELSE Head(segs).text) \o Expanded(Tail(segs), c)

\* C16: Resolve returns the template with each marker of a recognised form
\* whose lookup succeeds replaced by the value found, every other marker
\* left as its original text, and the characters outside markers copied.
C16_ResolveRecognisedForms ==
  (fn.op = "Resolve" /\ fn.done) => fn.out = Expanded(fn.segs, fn.c)

\* The disjunction, over the parts of the condition between its ORs, of the
\* conjunction of the comparisons of each part.
RECURSIVE OrOfAnds(_, _)
OrOfAnds(atoms, conns) ==
  LET ors == {k \in 1..Len(conns) : conns[k] = W_OR}
  IN  IF ors = {} THEN \A k \in 1..Len(atoms) : atoms[k].val
      ELSE LET k == CHOOSE j \in ors : \A h \in ors : j <= h
           IN  \/ \A j \in 1..k : atoms[j].val
               \/ OrOfAnds(SubSeq(atoms, k + 1, Len(atoms)),
                           SubSeq(conns, k + 1, Len(conns)))

\* C19: AND binds tighter than OR: a condition of comparisons joined by
\* AND and OR is true exactly when, in one of its parts between ORs, every
\* comparison is true.
C19_AndBindsTighter ==
  (fn.op = "EvaluateCondition" /\ fn.done) =>
    fn.out = OrOfAnds(fn.atoms, fn.conns)

\* "true OR false AND false" has been evaluated, and to true: the other
\* grouping, (true OR false) AND false, is false.
C19_Witness ==
  /\ fn.op = "EvaluateCondition" /\ fn.done
  /\ Len(fn.atoms) = 3
  /\ fn.conns = <<W_OR, W_AND>>
  /\ fn.atoms[1].val /\ ~fn.atoms[2].val /\ ~fn.atoms[3].val
  /\ fn.out

\* A name that is empty, longer than 100 characters, or that does not match
\* ^[a-zA-Z0-9][a-zA-Z0-9_-]*$.
InvalidName(name) ==
  \/ name = <<>>
  \/ Len(name) > 100
  \/ name[1] \notin Alnum
  \/ \E k \in 2..Len(name) : name[k] \notin Alnum \cup {"_", "-"}

\* C22: Load returns an error whose text contains "invalid bundle name"
\* exactly when the name is invalid, and then it has read no bundle file.
C22_InvalidNameError ==
  (fn.op = "Load" /\ fn.done) =>
    /\ InvalidName(fn.name) <=>
         (~fn.err.isNil /\ Contains(fn.err.msg, E_invalid_name))
    /\ InvalidName(fn.name) => fn.read = {}

\* How many elements of the sequence q are x.
Count(q, x) == Cardinality({k \in 1..Len(q) : q[k] = x})

C24_CheckedOnce ==
  fn.op = "IsClaudeMax" =>
    /\ fn.checks <= 1
    /\ ~fn.raced
    /\ \A g \in DOMAIN fn.at :
         fn.at[g] = "returned" =>
           /\ fn.checks = 1
           /\ fn.done
           /\ \A h \in DOMAIN fn.at : fn.at[h] \notin {"f", "store", "unlock"}
           /\ fn.got[g] = fn.isClaudeMax
           /\ \A h \in DOMAIN fn.at :
                fn.at[h] = "returned" => fn.got[h] = fn.got[g]

\* Two goroutines went for the lock, one ran the check and found a
\* subscription, and both calls have returned true.
C24_Witness ==
  /\ fn.op = "IsClaudeMax"
  /\ DOMAIN fn.at = {1, 2}
  /\ fn.at[1] = "returned" /\ fn.at[2] = "returned"
  /\ fn.got[1] /\ fn.got[2]
  /\ fn.checks = 1

\* The k-th segment of the call's template is the marker of an input whose
\* value holds "${".
MarkerValued(k) ==
  /\ fn.segs[k].kind = "ref"
  /\ Len(fn.segs[k].path) = 2
  /\ fn.segs[k].path[1] = W_inputs
  /\ Has(fn.c.Inputs, fn.segs[k].path[2])
  /\ Contains(fn.c.Inputs[fn.segs[k].path[2]], <<"$", "{">>)

\* C28: when the value Resolve substitutes for a marker itself holds "${",
\* the value is in the result as it is: at the start of the result for a
\* template's first segment, and between the literal texts for a marker
\* between two literals, whatever the text after it and the Context.
C28_SinglePass ==
  (fn.op = "Resolve" /\ fn.done) =>
    LET v(k) == fn.c.Inputs[fn.segs[k].path[2]]
    IN  /\ MarkerValued(1) => SubSeq(fn.out, 1, Len(v(1))) = v(1)
        /\ (MarkerValued(2) /\ fn.segs[1].kind = "lit") =>
             fn.out = fn.segs[1].text \o v(2) \o fn.segs[3].text

\* "${inputs.x}" has been resolved where x is "${inputs.y}" and y is "7":
\* the result is "${inputs.y}".
C28_Witness ==
  /\ fn.op = "Resolve" /\ fn.done
  /\ TemplateText(fn.segs) = InputRef(<<"x">>)
  /\ Has(fn.c.Inputs, <<"y">>)
  /\ fn.c.Inputs[<<"x">>] = InputRef(<<"y">>)
  /\ fn.out = InputRef(<<"y">>)

\* The order of two denoted numbers: an infinity lies on its side of every
\* number, and n/d < m/e when n*e < m*d.
Side(v) == IF v[2] = 0 THEN v[1] ELSE 0
Less(a, b) ==
  IF Side(a) # Side(b) THEN Side(a) < Side(b)
  ELSE a[2] # 0 /\ a[1] * b[2] < b[1] * a[2]

BareTested ==
  fn.op = "Condition" /\ fn.done /\ "core" \in DOMAIN fn /\ fn.text # <<>>

\* C30 as stated: such a condition is true only when it is exactly `true`,
\* and false, its step skipped, in every other case.
C30_ExactlyTrue ==
  BareTested => /\ fn.out <=> fn.text = W_true
                /\ fn.skip <=> fn.text # W_true

\* C30, amended: such a condition is true only when, its leading and
\* trailing white space apart, it is exactly `true`; in every other case
\* (`false`, `TRUE`, `'true'`, an unresolved marker) it is false and the step
\* carrying it is skipped.
C30_TrimmedExactlyTrue ==
  BareTested => /\ fn.out <=> fn.core = W_true
                /\ fn.skip <=> fn.core # W_true

\* `'true'` has been tested: false, and its step skipped.
C30_Witness ==
  /\ BareTested
  /\ fn.text = <<"'">> \o W_true \o <<"'">>
  /\ ~fn.out /\ fn.skip

\* evaluate is running, or has just returned from EvaluateCondition.
Evaluating == fn.op = "evaluate" /\ fn.at \in {"call", "return"}

\* What is left to do: the string of the running call and the right parts
\* the waiting calls have yet to evaluate.
RECURSIVE Pending(_)
Pending(stack) ==
  IF stack = <<>> THEN 0 ELSE 2 * Len(Head(stack).rest) + 3 + Pending(Tail(stack))

Measure(f) ==
  Pending(f.stack) + (IF f.at = "call" THEN 2 * Len(f.expr) + 2
                      ELSE IF f.at = "return" THEN 1 ELSE 0)

\* A recursive call is given a string strictly shorter than the one its
\* caller was given: the left part when the caller begins to wait, the right
\* part when it stops waiting.
ShorterString ==
  /\ Len(fn'.stack) > Len(fn.stack) =>
       Len(fn'.expr) < fn'.stack[Len(fn'.stack)].len
  /\ (Len(fn'.stack) < Len(fn.stack) /\ fn'.at = "call") =>
       Len(fn'.expr) < fn.stack[Len(fn.stack)].len

\* C31: EvaluateCondition and Resolve are total.  Every step of an
\* evaluation gives a recursive call a strictly shorter string and lessens
\* what is left to do, so the recursion on " OR " and " AND " ends; the
\* evaluation then has returned true or false, and a Resolve has returned
\* a string.
C31_Total ==
  /\ [][Evaluating => (ShorterString /\ Measure(fn') < Measure(fn))]_vars
  /\ [](fn.op = "evaluate" => Measure(fn) >= 0 /\ fn.ret \in BOOLEAN)
  /\ []((fn.op = "evaluate" /\ fn.at = "done") =>
          fn.stack = <<>> /\ fn.ret = EvaluateCondition(fn.cond, fn.c))
  /\ []((fn.op = "Resolve" /\ fn.done) => fn.out \in Seq(STRING))

\* "x AND true OR true" is being evaluated: the call on the whole waits
\* for "x AND true", whose call waits for `x`.
C31_Witness ==
  /\ fn.op = "evaluate" /\ fn.at = "call"
  /\ fn.cond = <<"x">> \o W_AND \o W_true \o W_OR \o W_true
  /\ Len(fn.stack) = 2
  /\ fn.expr = <<"x">>
  /\ fn.stack[1].conn = W_OR /\ fn.stack[2].conn = W_AND

\* C36: a condition `${ref} == literal` is true exactly when the resolved
\* value of the reference equals the literal, both trimmed and stripped of
\* their quotes; a value that holds " OR ", " AND " or a comparison operator
\* is an operand like any other.
C36_ValueIsData ==
  (fn.op = "Condition" /\ fn.done /\ "value" \in DOMAIN fn) =>
    (fn.out <=> fn.value.norm = fn.lit.norm)

\* C38: whatever the number of Stop calls and their goroutines, the done
\* channel is closed once and never twice, by the time any Stop has
\* returned; the animation loop holds the display mutex only while it
\* renders, never while it waits; and once done is closed the loop exits.
C38_StopOnceLoopExits ==
  /\ [](fn.op = "Stop" => ~fn.panicked)
  /\ []((fn.op = "Stop" /\ fn.returned > 0) => fn.closed)
  /\ []((fn.op = "Stop" /\ fn.mu = 1) => fn.loop = "render")
  /\ (fn.op = "Stop" /\ fn.closed)
       ~> (fn.op = "Stop" /\ fn.loop = "exited" /\ fn.mu # 1)

\* Three calls of Stop from two goroutines have returned and the loop has
\* exited, after it had rendered.
C38_Witness ==
  /\ fn.op = "Stop" /\ fn.returned = 3
  /\ fn.closed /\ fn.loop = "exited"
  /\ fn.spinnerFrame > 0

\* The line held for the n-th non-blank line: its text, without the
\* padding and the colours.
Held(n) == IF n % 4 = 0 THEN <<>> ELSE Itoa(n)

\* The calls with an index that is out of range.
OutOfRangeCall ==
  \E idx \in {0 - 1, Len(fn.steps)} :
    \/ SetStepRunning(idx)
    \/ SetStepSkipped(idx)
    \/ \E success \in BOOLEAN : SetStepComplete(idx, success)

\* C39: the display holds at most 50 lines, and they are the last (at most
\* 50) of the non-blank lines added since the last SetStepRunning that had
\* an index in range, in the order they came; a SetStepRunning,
\* SetStepComplete or SetStepSkipped with an index out of range changes
\* nothing.
C39_RecentLines ==
  /\ [](fn.op = "Output" =>
         LET since == fn.added - fn.mark
             first == IF since > 50 THEN fn.added - 50 ELSE fn.mark
         IN /\ Len(fn.liveOutput) <= 50
            /\ fn.liveOutput = [k \in 1..(fn.added - first) |-> Held(first + k)])
  /\ [][(fn.op = "Output" /\ OutOfRangeCall) => fn' = fn]_vars

\* 51 non-blank lines came after the last SetStepRunning: the first of them
\* is gone, 50 are held.
C39_Witness ==
  /\ fn.op = "Output"
  /\ fn.mark = 1 /\ fn.added = 52
  /\ Len(fn.liveOutput) = 50
  /\ fn.liveOutput[1] = <<"3">>
  /\ fn.steps = <<"StepSuccess", "StepRunning">>
  /\ fn.currentStep = 1

====
